---- MODULE Spec2Model ----
(***************************************************************************)
(* Paginatto WhatsApp bot (src/main.py, src/offer_rules.py): the per-phone *)
(* conversation context store (Redis with in-memory fallback), the text    *)
(* helpers (normalisation, intent detection, catalog search), the stage    *)
(* router and the two webhooks, as a state machine.                        *)
(*                                                                         *)
(* Text is a sequence of one-character strings; every Python str function  *)
(* and regular expression used by the code is computed on that sequence.   *)
(* Time is the value of now_utc() in minutes.                              *)
(***************************************************************************)
EXTENDS Integers, Sequences, FiniteSets, TLC

\* ------------------------------------------------------------------------
\* Bounds of the model
\* ------------------------------------------------------------------------
\* the clock stops advancing once it has reached MaxTime minutes
MaxTime == 200

\* the number of requests a run handles
MaxRequests == 3

\* ------------------------------------------------------------------------
\* Characters
\* ------------------------------------------------------------------------
LowerAscii ==
  {"a","b","c","d","e","f","g","h","i","j","k","l","m",
   "n","o","p","q","r","s","t","u","v","w","x","y","z"}
UpperAscii ==
  {"A","B","C","D","E","F","G","H","I","J","K","L","M",
   "N","O","P","Q","R","S","T","U","V","W","X","Y","Z"}
Digits == {"0","1","2","3","4","5","6","7","8","9"}
LowerAccent == {"á","à","â","ã","é","ê","í","ó","ô","õ","ú","ç"}
UpperAccent == {"Á","À","Â","Ã","É","Ê","Í","Ó","Ô","Õ","Ú","Ç"}
\* str.isspace / regex \s
Ws == {" ", "\t", "\n"}

\* str.lower, one character
LowerMap ==
  [c \in UpperAscii \cup UpperAccent |->
     CASE c = "A" -> "a" [] c = "B" -> "b" [] c = "C" -> "c" [] c = "D" -> "d"
       [] c = "E" -> "e" [] c = "F" -> "f" [] c = "G" -> "g" [] c = "H" -> "h"
       [] c = "I" -> "i" [] c = "J" -> "j" [] c = "K" -> "k" [] c = "L" -> "l"
       [] c = "M" -> "m" [] c = "N" -> "n" [] c = "O" -> "o" [] c = "P" -> "p"
       [] c = "Q" -> "q" [] c = "R" -> "r" [] c = "S" -> "s" [] c = "T" -> "t"
       [] c = "U" -> "u" [] c = "V" -> "v" [] c = "W" -> "w" [] c = "X" -> "x"
       [] c = "Y" -> "y" [] c = "Z" -> "z"
       [] c = "Á" -> "á" [] c = "À" -> "à" [] c = "Â" -> "â" [] c = "Ã" -> "ã"
       [] c = "É" -> "é" [] c = "Ê" -> "ê" [] c = "Í" -> "í" [] c = "Ó" -> "ó"
       [] c = "Ô" -> "ô" [] c = "Õ" -> "õ" [] c = "Ú" -> "ú" [] c = "Ç" -> "ç"]

\* unidecode, one character (after lower): the accent is dropped, ASCII is kept
UnidecodeMap ==
  [c \in LowerAccent |->
     CASE c \in {"á","à","â","ã"} -> "a"
       [] c \in {"é","ê"} -> "e"
       [] c = "í" -> "i"
       [] c \in {"ó","ô","õ"} -> "o"
       [] c = "ú" -> "u"
       [] c = "ç" -> "c"]

\* regex \w on a str pattern: Unicode letters and digits, and "_"
IsWordCh(c) ==
  c \in LowerAscii \cup UpperAscii \cup Digits \cup LowerAccent \cup UpperAccent \cup {"_"}

\* ------------------------------------------------------------------------
\* Python values
\* ------------------------------------------------------------------------
\* a str the code reads character by character is the sequence of its
\* characters; a str the code only compares and stores is a string
\* Python None, where the other values are str given by their characters
None == <<"None">>

\* Python None, where the other values are the str constants of the code
NoneSym == "None"

\* ------------------------------------------------------------------------
\* Python str operations
\* ------------------------------------------------------------------------
\* map[c] where the map has c, else c
Translate(map, c) == IF c \in DOMAIN map THEN map[c] ELSE c

py_lower(s) == [i \in 1..Len(s) |-> Translate(LowerMap, s[i])]

py_unidecode(s) == [i \in 1..Len(s) |-> Translate(UnidecodeMap, s[i])]

\* s.lstrip() and s.rstrip()
LStrip(s) ==
  LET keep == {i \in 1..Len(s) : s[i] \notin Ws}
  IN  IF keep = {} THEN <<>>
      ELSE SubSeq(s, CHOOSE i \in keep : \A j \in keep : i <= j, Len(s))

RStrip(s) ==
  LET keep == {i \in 1..Len(s) : s[i] \notin Ws}
  IN  IF keep = {} THEN <<>>
      ELSE SubSeq(s, 1, CHOOSE i \in keep : \A j \in keep : j <= i)

py_strip(s) == RStrip(LStrip(s))

\* sub in s
Contains(s, sub) ==
  \E i \in 1..(Len(s) - Len(sub) + 1) : SubSeq(s, i, i + Len(sub) - 1) = sub

StartsWith(s, pre) == Len(pre) <= Len(s) /\ SubSeq(s, 1, Len(pre)) = pre

\* the k-th smallest element of a set of integers
Nth(xs, k) == CHOOSE n \in xs : Cardinality({m \in xs : m < n}) = k - 1

\* <<F(n1), F(n2), ...>> for the elements n1 < n2 < ... of xs
SeqOver(xs, F(_)) == [k \in 1..Cardinality(xs) |-> F(Nth(xs, k))]

\* re.findall(r"[<cls>]+", s): the maximal runs of characters of cls
FindRuns(s, cls) ==
  LET starts == {i \in 1..Len(s) : s[i] \in cls /\ (i = 1 \/ s[i - 1] \notin cls)}
      run(i) == SubSeq(s, i, CHOOSE j \in i..Len(s) :
                               /\ \A k \in i..j : s[k] \in cls
                               /\ (j = Len(s) \/ s[j + 1] \notin cls))
  IN  SeqOver(starts, run)

\* ------------------------------------------------------------------------
\* Regular expressions (module re): a pattern is a pair <<kind, argument>>
\* ------------------------------------------------------------------------
RLit(s)  == <<"lit", s>>          \* the characters of s
RCls(cs) == <<"set", cs>>         \* [...]
RNot(cs) == <<"nset", cs>>        \* [^...]
RWB      == <<"wb", {}>>          \* \b
RCat(xs) == <<"cat", xs>>         \* x1 x2 ...
RAlt(xs) == <<"alt", xs>>         \* x1|x2|...
ROpt(x)  == <<"opt", x>>          \* x?
RStar(x) == <<"star", x>>         \* x*
RPlus(x) == RCat(<<x, RStar(x)>>) \* x+
RSp      == RCls(Ws)              \* \s

\* \b at position i of t (between t[i-1] and t[i])
IsBoundary(t, i) ==
  (i > 1 /\ IsWordCh(t[i - 1])) # (i <= Len(t) /\ IsWordCh(t[i]))

\* the positions j such that the pattern matches t[i..j-1]
RECURSIVE MatchEnds(_, _, _)
RECURSIVE CatEnds(_, _, _, _)
RECURSIVE StarEnds(_, _, _, _)
MatchEnds(re, t, i) ==
  CASE re[1] = "lit"  ->
         IF i + Len(re[2]) - 1 <= Len(t) /\ SubSeq(t, i, i + Len(re[2]) - 1) = re[2]
         THEN {i + Len(re[2])} ELSE {}
    [] re[1] = "set"  -> IF i <= Len(t) /\ t[i] \in re[2] THEN {i + 1} ELSE {}
    [] re[1] = "nset" -> IF i <= Len(t) /\ t[i] \notin re[2] THEN {i + 1} ELSE {}
    [] re[1] = "wb"   -> IF IsBoundary(t, i) THEN {i} ELSE {}
    [] re[1] = "cat"  -> CatEnds(re[2], 1, t, {i})
    [] re[1] = "alt"  -> UNION {MatchEnds(re[2][n], t, i) : n \in 1..Len(re[2])}
    [] re[1] = "opt"  -> {i} \cup MatchEnds(re[2], t, i)
    [] re[1] = "star" -> StarEnds(re[2], t, {i}, {i})
CatEnds(xs, n, t, starts) ==
  IF n > Len(xs) \/ starts = {} THEN starts
  ELSE CatEnds(xs, n + 1, t, UNION {MatchEnds(xs[n], t, e) : e \in starts})
\* x*: acc is the set of the ends reached, new those reached in the last round
StarGrow(x, t, new, acc) == IF new = {} THEN acc ELSE StarEnds(x, t, new, acc \cup new)
StarEnds(x, t, frontier, acc) ==
  StarGrow(x, t, UNION {MatchEnds(x, t, e) : e \in frontier} \ acc, acc)

\* re.search(re, t) is not None
re_search(re, t) == \E i \in 1..(Len(t) + 1) : MatchEnds(re, t, i) # {}

\* re.fullmatch(re, t) is not None
re_fullmatch(re, t) == (Len(t) + 1) \in MatchEnds(re, t, 1)

SetMax(xs) == CHOOSE x \in xs : \A y \in xs : y <= x

\* re.sub(re, repl, t) for the substitution patterns of the code, none of which
\* matches the empty string and all of which are greedy: at the leftmost
\* position with a match, the longest match is replaced
RECURSIVE re_sub(_, _, _, _)
\* ends: where a non-empty match that starts at i can end
SubAt(re, repl, t, i, ends) ==
  IF ends = {} THEN <<t[i]>> \o re_sub(re, repl, t, i + 1)
  ELSE repl \o re_sub(re, repl, t, SetMax(ends))
re_sub(re, repl, t, i) ==
  IF i > Len(t) THEN <<>> ELSE SubAt(re, repl, t, i, MatchEnds(re, t, i) \ {i})

\* ------------------------------------------------------------------------
\* Patterns & intents (main.py 553-628)
\* ------------------------------------------------------------------------
YES_PATTERNS ==
  <<
    \* \bsim\b
    RCat(<<RWB, RLit(<<"s","i","m">>), RWB>>),
    \* \bisso\b
    RCat(<<RWB, RLit(<<"i","s","s","o">>), RWB>>),
    \* \bconfirmo\b
    RCat(<<RWB, RLit(<<"c","o","n","f","i","r","m","o">>), RWB>>),
    \* \bclaro\b
    RCat(<<RWB, RLit(<<"c","l","a","r","o">>), RWB>>),
    \* \bpositivo\b
    RCat(<<RWB, RLit(<<"p","o","s","i","t","i","v","o">>), RWB>>),
    \* \bafirmativo\b
    RCat(<<RWB, RLit(<<"a","f","i","r","m","a","t","i","v","o">>), RWB>>),
    \* \bcert[oa]\b
    RCat(<<RWB, RLit(<<"c","e","r","t">>), RCls({"o","a"}), RWB>>)
  >>

TRUST_PATTERNS ==
  <<
    \* \bgolpe(s)?\b
    RCat(<<RWB, RLit(<<"g","o","l","p","e">>), ROpt(RLit(<<"s">>)), RWB>>),
    \* \bfraude(s)?\b
    RCat(<<RWB, RLit(<<"f","r","a","u","d","e">>), ROpt(RLit(<<"s">>)), RWB>>),
    \* \bscam\b
    RCat(<<RWB, RLit(<<"s","c","a","m">>), RWB>>),
    \* \bfake\b
    RCat(<<RWB, RLit(<<"f","a","k","e">>), RWB>>),
    \* \bseguran[çc]a\b
    RCat(<<RWB, RLit(<<"s","e","g","u","r","a","n">>), RCls({"ç","c"}), RLit(<<"a">>), RWB>>),
    \* \bsegur[ao]\b
    RCat(<<RWB, RLit(<<"s","e","g","u","r">>), RCls({"a","o"}), RWB>>),
    \* \bconfi[aá]vel\b
    RCat(<<RWB, RLit(<<"c","o","n","f","i">>), RCls({"a","á"}), RLit(<<"v","e","l">>), RWB>>),
    \* \bconfian[çc]a\b
    RCat(<<RWB, RLit(<<"c","o","n","f","i","a","n">>), RCls({"ç","c"}), RLit(<<"a">>), RWB>>)
  >>

INTENTS ==
  <<
    <<"greeting", <<
      \* \b(oi|ola|eai|boa noite|boa tarde|bom dia)\b
      RCat(<<RWB, RAlt(<<RLit(<<"o","i">>), RLit(<<"o","l","a">>), RLit(<<"e","a","i">>), RLit(<<"b","o","a"," ","n","o","i","t","e">>), RLit(<<"b","o","a"," ","t","a","r","d","e">>), RLit(<<"b","o","m"," ","d","i","a">>)>>), RWB>>)
    >> >>,
    <<"thanks", <<
      \* \bobrigado?\b|\bvaleu\b
      RAlt(<<RCat(<<RWB, RLit(<<"o","b","r","i","g","a","d">>), ROpt(RLit(<<"o">>)), RWB>>), RCat(<<RWB, RLit(<<"v","a","l","e","u">>), RWB>>)>>)
    >> >>,
    <<"stop", <<
      \* \bstop\b|\bcancel(ar|e)\b|\bpare\b|\bdescadastrar\b|\bnao quero\b
      RAlt(<<RCat(<<RWB, RLit(<<"s","t","o","p">>), RWB>>), RCat(<<RWB, RLit(<<"c","a","n","c","e","l">>), RAlt(<<RLit(<<"a","r">>), RLit(<<"e">>)>>), RWB>>), RCat(<<RWB, RLit(<<"p","a","r","e">>), RWB>>), RCat(<<RWB, RLit(<<"d","e","s","c","a","d","a","s","t","r","a","r">>), RWB>>), RCat(<<RWB, RLit(<<"n","a","o"," ","q","u","e","r","o">>), RWB>>)>>)
    >> >>,
    <<"shipping", <<
      \* \b(entrega|frete|prazo|chega|chegada|quando\s+chega|vai\s+chegar)\b
      RCat(<<RWB, RAlt(<<RLit(<<"e","n","t","r","e","g","a">>), RLit(<<"f","r","e","t","e">>), RLit(<<"p","r","a","z","o">>), RLit(<<"c","h","e","g","a">>), RLit(<<"c","h","e","g","a","d","a">>), RCat(<<RLit(<<"q","u","a","n","d","o">>), RPlus(RSp), RLit(<<"c","h","e","g","a">>)>>), RCat(<<RLit(<<"v","a","i">>), RPlus(RSp), RLit(<<"c","h","e","g","a","r">>)>>)>>), RWB>>),
      \* \b(rastreio|rastreamento|c[oó]digo\s+de\s+rastreio|correios|sedex)\b
      RCat(<<RWB, RAlt(<<RLit(<<"r","a","s","t","r","e","i","o">>), RLit(<<"r","a","s","t","r","e","a","m","e","n","t","o">>), RCat(<<RLit(<<"c">>), RCls({"o","ó"}), RLit(<<"d","i","g","o">>), RPlus(RSp), RLit(<<"d","e">>), RPlus(RSp), RLit(<<"r","a","s","t","r","e","i","o">>)>>), RLit(<<"c","o","r","r","e","i","o","s">>), RLit(<<"s","e","d","e","x">>)>>), RWB>>),
      \* \b(endere[cç]o|resid[eê]ncia|receber\s+em\s+casa|envio\s+f[ií]sico)\b
      RCat(<<RWB, RAlt(<<RCat(<<RLit(<<"e","n","d","e","r","e">>), RCls({"c","ç"}), RLit(<<"o">>)>>), RCat(<<RLit(<<"r","e","s","i","d">>), RCls({"e","ê"}), RLit(<<"n","c","i","a">>)>>), RCat(<<RLit(<<"r","e","c","e","b","e","r">>), RPlus(RSp), RLit(<<"e","m">>), RPlus(RSp), RLit(<<"c","a","s","a">>)>>), RCat(<<RLit(<<"e","n","v","i","o">>), RPlus(RSp), RLit(<<"f">>), RCls({"i","í"}), RLit(<<"s","i","c","o">>)>>)>>), RWB>>)
    >> >>,
    <<"payment", <<
      \* \bpix\b
      RCat(<<RWB, RLit(<<"p","i","x">>), RWB>>),
      \* \bcart[aã]o\b
      RCat(<<RWB, RLit(<<"c","a","r","t">>), RCls({"a","ã"}), RLit(<<"o">>), RWB>>),
      \* \bcr[eé]dito\b
      RCat(<<RWB, RLit(<<"c","r">>), RCls({"e","é"}), RLit(<<"d","i","t","o">>), RWB>>),
      \* \bdebito\b
      RCat(<<RWB, RLit(<<"d","e","b","i","t","o">>), RWB>>),
      \* \bparcel
      RCat(<<RWB, RLit(<<"p","a","r","c","e","l">>)>>),
      \* forma(s)? de pagamento
      RCat(<<RLit(<<"f","o","r","m","a">>), ROpt(RLit(<<"s">>)), RLit(<<" ","d","e"," ","p","a","g","a","m","e","n","t","o">>)>>),
      \* \bboleto\b
      RCat(<<RWB, RLit(<<"b","o","l","e","t","o">>), RWB>>)
    >> >>,
    <<"price", <<
      \* \b(pre[cç]o|valor|quanto\s+custa|qnto)\b
      RCat(<<RWB, RAlt(<<RCat(<<RLit(<<"p","r","e">>), RCls({"c","ç"}), RLit(<<"o">>)>>), RLit(<<"v","a","l","o","r">>), RCat(<<RLit(<<"q","u","a","n","t","o">>), RPlus(RSp), RLit(<<"c","u","s","t","a">>)>>), RLit(<<"q","n","t","o">>)>>), RWB>>)
    >> >>,
    <<"discount", <<
      \* \b(desconto|cupom|promo[cç][aã]o|oferta)\b
      RCat(<<RWB, RAlt(<<RLit(<<"d","e","s","c","o","n","t","o">>), RLit(<<"c","u","p","o","m">>), RCat(<<RLit(<<"p","r","o","m","o">>), RCls({"c","ç"}), RCls({"a","ã"}), RLit(<<"o">>)>>), RLit(<<"o","f","e","r","t","a">>)>>), RWB>>)
    >> >>,
    <<"deadline", <<
      \* \bat[ée]\s+quando\b
      RCat(<<RWB, RLit(<<"a","t">>), RCls({"é","e"}), RPlus(RSp), RLit(<<"q","u","a","n","d","o">>), RWB>>),
      \* \b(valid[ao]|vence|prazo\s+da\s+promo)\b
      RCat(<<RWB, RAlt(<<RCat(<<RLit(<<"v","a","l","i","d">>), RCls({"a","o"})>>), RLit(<<"v","e","n","c","e">>), RCat(<<RLit(<<"p","r","a","z","o">>), RPlus(RSp), RLit(<<"d","a">>), RPlus(RSp), RLit(<<"p","r","o","m","o">>)>>)>>), RWB>>)
    >> >>,
    <<"link", <<
      \* \blink\b
      RCat(<<RWB, RLit(<<"l","i","n","k">>), RWB>>),
      \* manda(r)?\s+o?\s*link
      RCat(<<RLit(<<"m","a","n","d","a">>), ROpt(RLit(<<"r">>)), RPlus(RSp), ROpt(RLit(<<"o">>)), RStar(RSp), RLit(<<"l","i","n","k">>)>>),
      \* quero\s+comprar
      RCat(<<RLit(<<"q","u","e","r","o">>), RPlus(RSp), RLit(<<"c","o","m","p","r","a","r">>)>>),
      \* pode\s+aplicar
      RCat(<<RLit(<<"p","o","d","e">>), RPlus(RSp), RLit(<<"a","p","l","i","c","a","r">>)>>),
      \* vamos\s+fechar
      RCat(<<RLit(<<"v","a","m","o","s">>), RPlus(RSp), RLit(<<"f","e","c","h","a","r">>)>>)
    >> >>,
    <<"product_info", <<
      \* como\s+funciona
      RCat(<<RLit(<<"c","o","m","o">>), RPlus(RSp), RLit(<<"f","u","n","c","i","o","n","a">>)>>),
      \* o\s+que\s+[ée]
      RCat(<<RLit(<<"o">>), RPlus(RSp), RLit(<<"q","u","e">>), RPlus(RSp), RCls({"é","e"})>>),
      \* conte[úu]do
      RCat(<<RLit(<<"c","o","n","t","e">>), RCls({"ú","u"}), RLit(<<"d","o">>)>>),
      \* do\s+que\s+se\s+trata
      RCat(<<RLit(<<"d","o">>), RPlus(RSp), RLit(<<"q","u","e">>), RPlus(RSp), RLit(<<"s","e">>), RPlus(RSp), RLit(<<"t","r","a","t","a">>)>>)
    >> >>,
    <<"email_missing", <<
      \* n[aã]o\s+(recebi|chegou).*(email|e-?mail|link)
      RCat(<<RLit(<<"n">>), RCls({"a","ã"}), RLit(<<"o">>), RPlus(RSp), RAlt(<<RLit(<<"r","e","c","e","b","i">>), RLit(<<"c","h","e","g","o","u">>)>>), RStar(RNot({"\n"})), RAlt(<<RLit(<<"e","m","a","i","l">>), RCat(<<RLit(<<"e">>), ROpt(RLit(<<"-">>)), RLit(<<"m","a","i","l">>)>>), RLit(<<"l","i","n","k">>)>>)>>),
      \* cad[êe]\s+o\s+(email|e-?mail|link)
      RCat(<<RLit(<<"c","a","d">>), RCls({"ê","e"}), RPlus(RSp), RLit(<<"o">>), RPlus(RSp), RAlt(<<RLit(<<"e","m","a","i","l">>), RCat(<<RLit(<<"e">>), ROpt(RLit(<<"-">>)), RLit(<<"m","a","i","l">>)>>), RLit(<<"l","i","n","k">>)>>)>>)
    >> >>,
    <<"resend", <<
      \* \b(reenvia|reenviar|enviar\s+de\s+novo|manda\s+de\s+novo|mandar\s+novamente)\b
      RCat(<<RWB, RAlt(<<RLit(<<"r","e","e","n","v","i","a">>), RLit(<<"r","e","e","n","v","i","a","r">>), RCat(<<RLit(<<"e","n","v","i","a","r">>), RPlus(RSp), RLit(<<"d","e">>), RPlus(RSp), RLit(<<"n","o","v","o">>)>>), RCat(<<RLit(<<"m","a","n","d","a">>), RPlus(RSp), RLit(<<"d","e">>), RPlus(RSp), RLit(<<"n","o","v","o">>)>>), RCat(<<RLit(<<"m","a","n","d","a","r">>), RPlus(RSp), RLit(<<"n","o","v","a","m","e","n","t","e">>)>>)>>), RWB>>)
    >> >>,
    <<"trust", TRUST_PATTERNS>>
  >>

_SYNONYMS ==
  <<
    \* \bobg\b|\bvlw\b|\bvaleu\b  ->  ' obrigado '
    <<RAlt(<<RCat(<<RWB, RLit(<<"o","b","g">>), RWB>>), RCat(<<RWB, RLit(<<"v","l","w">>), RWB>>), RCat(<<RWB, RLit(<<"v","a","l","e","u">>), RWB>>)>>), <<" ","o","b","r","i","g","a","d","o"," ">>>>,
    \* \bpfv\b|\bpls\b|\bpor favor\b  ->  ' por favor '
    <<RAlt(<<RCat(<<RWB, RLit(<<"p","f","v">>), RWB>>), RCat(<<RWB, RLit(<<"p","l","s">>), RWB>>), RCat(<<RWB, RLit(<<"p","o","r"," ","f","a","v","o","r">>), RWB>>)>>), <<" ","p","o","r"," ","f","a","v","o","r"," ">>>>,
    \* \bq(?:l|ual)\b|\bqual\b  ->  ' qual '
    <<RAlt(<<RCat(<<RWB, RLit(<<"q">>), RAlt(<<RLit(<<"l">>), RLit(<<"u","a","l">>)>>), RWB>>), RCat(<<RWB, RLit(<<"q","u","a","l">>), RWB>>)>>), <<" ","q","u","a","l"," ">>>>,
    \* \bnao\b|\bn\b  ->  ' nao '
    <<RAlt(<<RCat(<<RWB, RLit(<<"n","a","o">>), RWB>>), RCat(<<RWB, RLit(<<"n">>), RWB>>)>>), <<" ","n","a","o"," ">>>>,
    \* \bsim\b|\byes\b  ->  ' sim '
    <<RAlt(<<RCat(<<RWB, RLit(<<"s","i","m">>), RWB>>), RCat(<<RWB, RLit(<<"y","e","s">>), RWB>>)>>), <<" ","s","i","m"," ">>>>,
    \* \blink\b|\bcheckout\b|\bcarrinho\b  ->  ' link '
    <<RAlt(<<RCat(<<RWB, RLit(<<"l","i","n","k">>), RWB>>), RCat(<<RWB, RLit(<<"c","h","e","c","k","o","u","t">>), RWB>>), RCat(<<RWB, RLit(<<"c","a","r","r","i","n","h","o">>), RWB>>)>>), <<" ","l","i","n","k"," ">>>>
  >>

\* https?://\S+|www\.\S+   (re.I; applied to lower-cased text)
_RE_URL ==
  RAlt(<<RCat(<<RLit(<<"h","t","t","p">>), ROpt(RLit(<<"s">>)), RLit(<<":","/","/">>), RPlus(RNot(Ws))>>), RCat(<<RLit(<<"w","w","w",".">>), RPlus(RNot(Ws))>>)>>)

\* [^a-z0-9]+   (re.I)
_RE_NON_ALNUM ==
  RPlus(RNot(LowerAscii \cup UpperAscii \cup Digits))

\* _RE_MULTICHAR.sub(r"\1\1", s), _RE_MULTICHAR = (.)\1{2,}: a run of three or
\* more of one character (not a line break) becomes two of it
RECURSIVE RunLen(_, _)
RunLen(s, c) == IF s # <<>> /\ Head(s) = c THEN 1 + RunLen(Tail(s), c) ELSE 0

RECURSIVE _RE_MULTICHAR_sub(_)
\* n: the length of the run of Head(s) that s starts with
SquashRun(s, n) ==
  IF n >= 3 /\ Head(s) # "\n"
  THEN <<Head(s), Head(s)>> \o _RE_MULTICHAR_sub(SubSeq(s, n + 1, Len(s)))
  ELSE <<Head(s)>> \o _RE_MULTICHAR_sub(Tail(s))
_RE_MULTICHAR_sub(s) == IF s = <<>> THEN <<>> ELSE SquashRun(s, RunLen(s, Head(s)))

RECURSIVE ApplySynonyms(_, _)
ApplySynonyms(s, n) ==
  IF n > Len(_SYNONYMS) THEN s
  ELSE ApplySynonyms(re_sub(_SYNONYMS[n][1], _SYNONYMS[n][2], s, 1), n + 1)

\* unidecode(s.lower()), the URLs, the synonyms, the repeated characters, the
\* characters that are neither letters nor digits, the runs of spaces, strip()
normalize_text(s) ==
  py_strip(
    re_sub(RPlus(RSp), <<" ">>,
      re_sub(_RE_NON_ALNUM, <<" ">>,
        _RE_MULTICHAR_sub(
          ApplySynonyms(
            re_sub(_RE_URL, <<" ">>, py_unidecode(py_lower(s)), 1), 1)), 1), 1))

\* any(re.search(p, t) for p in patterns)
AnySearch(patterns, t) == \E n \in 1..Len(patterns) : re_search(patterns[n], t)

matches(text, patterns) == AnySearch(patterns, normalize_text(text))

\* the legacy checks of detect_intent, in order
LEGACY_INTENTS ==
  <<
    \* \b(sim|1)\b
    <<"yes", <<RCat(<<RWB, RAlt(<<RLit(<<"s","i","m">>), RLit(<<"1">>)>>), RWB>>)>> >>,
    \* \b(nao|2)\b
    <<"no", <<RCat(<<RWB, RAlt(<<RLit(<<"n","a","o">>), RLit(<<"2">>)>>), RWB>>)>> >>,
    \* \b(comprei|paguei|finalizei|pagamento aprovado)\b
    <<"bought", <<RCat(<<RWB, RAlt(<<RLit(<<"c","o","m","p","r","e","i">>), RLit(<<"p","a","g","u","e","i">>), RLit(<<"f","i","n","a","l","i","z","e","i">>), RLit(<<"p","a","g","a","m","e","n","t","o"," ","a","p","r","o","v","a","d","o">>)>>), RWB>>)>> >>,
    \* \b(desisti|nao vou|depois)\b
    <<"quit", <<RCat(<<RWB, RAlt(<<RLit(<<"d","e","s","i","s","t","i">>), RLit(<<"n","a","o"," ","v","o","u">>), RLit(<<"d","e","p","o","i","s">>)>>), RWB>>)>> >>
  >>

\* a variant of the loop of detect_intent that does not return at the first
\* match, so that the last matching entry wins; C14_FirstIntentInOrder tells it
\* from the code
RECURSIVE FirstIntent_last_match(_, _, _, _)
FirstIntent_last_match(table, n, t, default) ==
  IF n > Len(table) THEN default
  ELSE FirstIntent_last_match(table, n + 1, t,
         IF AnySearch(table[n][2], t) THEN table[n][1] ELSE default)

\* the first entry of table whose pattern list matches t, from entry n on
RECURSIVE FirstIntent(_, _, _, _)
FirstIntent(table, n, t, default) ==
  IF n > Len(table) THEN default
  ELSE IF AnySearch(table[n][2], t) THEN table[n][1]
  ELSE FirstIntent(table, n + 1, t, default)

detect_intent(text) ==
  FirstIntent(INTENTS \o LEGACY_INTENTS, 1, normalize_text(text), "unknown")

\* ------------------------------------------------------------------------
\* Product helpers (main.py 495-503)
\* ------------------------------------------------------------------------
\* \bv[1-4]\b|\bvolume\s*[1-4]\b
RE_TABIB_VOLUME ==
  RAlt(<<RCat(<<RWB, RLit(<<"v">>), RCls({"1","2","3","4"}), RWB>>), RCat(<<RWB, RLit(<<"v","o","l","u","m","e">>), RStar(RSp), RCls({"1","2","3","4"}), RWB>>)>>)

\* t = (text or "").lower()
ProductKeyIn(t) ==
  IF Contains(t, <<"t","a","b","i","b">>) \/ re_search(RE_TABIB_VOLUME, t) THEN <<"t","a","b","i","b">>
  ELSE IF Contains(t, <<"a","i","r","f","r","y","e","r">>) \/ Contains(t, <<"f","r","i","t","a","d","e","i","r","a">>) THEN <<"a","i","r","f","r","y","e","r">>
  ELSE IF Contains(t, <<"m","a","s","t","e","r","c","h","e","f">>) \/ Contains(t, <<"m","a","s","t","e","r"," ","c","h","e","f">>) THEN <<"m","a","s","t","e","r","c","h","e","f">>
  ELSE None

detect_product_key(text) == ProductKeyIn(py_lower(text))

\* is_option(text, *options): options is the set of the options
is_option(text, options) == py_lower(py_strip(text)) \in options

\* ------------------------------------------------------------------------
\* Catalog (main.py 225-492)
\* ------------------------------------------------------------------------
\* _load_catalog(): neither CATALOG_JSON nor a catalog.json file is configured,
\* the built-in list is returned (sku, family, name, checkout, aliases)
Catalog ==
  <<
    [sku |-> <<"T","A","B","I","B","_","V","1">>, family |-> <<"t","a","b","i","b">>,
     name |-> <<"T","a","b","i","b"," ","V","o","l","u","m","e"," ","1",":"," ","T","r","a","t","a","m","e","n","t","o"," ","d","e"," ","D","o","r","e","s"," ","e"," ","I","n","f","l","a","m","a","ç","õ","e","s">>,
     checkout |-> <<"h","t","t","p","s",":","/","/","s","o","m","a","s","o","u","n","d","s","o","l","u","t","i","o","n","s",".","m","y","c","a","r","t","p","a","n","d","a",".","c","o","m","/","c","h","e","c","k","o","u","t","/","1","6","6","9","1","9","6","7","9",":","1">>,
     aliases |-> <<<<"t","a","b","i","b"," ","1">>, <<"t","a","b","i","b","1">>, <<"v","1">>, <<"v","o","l","u","m","e"," ","1">>, <<"i","n","f","l","a","m","a","c","o","e","s">>, <<"i","n","f","l","a","m","a","ç","õ","e","s">>, <<"t","r","a","t","a","m","e","n","t","o"," ","d","e"," ","d","o","r","e","s">>, <<"d","o","r","e","s">>, <<"d","o","r">>, <<"i","n","f","l","a","m","a","ç","ã","o">>, <<"i","n","f","l","a","m","a","c","a","o">>>>],
    [sku |-> <<"T","A","B","I","B","_","V","2">>, family |-> <<"t","a","b","i","b">>,
     name |-> <<"T","a","b","i","b"," ","V","o","l","u","m","e"," ","2",":"," ","S","a","ú","d","e"," ","R","e","s","p","i","r","a","t","ó","r","i","a"," ","e"," ","I","m","u","n","i","d","a","d","e">>,
     checkout |-> <<"h","t","t","p","s",":","/","/","s","o","m","a","s","o","u","n","d","s","o","l","u","t","i","o","n","s",".","m","y","c","a","r","t","p","a","n","d","a",".","c","o","m","/","c","h","e","c","k","o","u","t","/","1","6","6","9","1","9","6","8","2",":","1">>,
     aliases |-> <<<<"t","a","b","i","b"," ","2">>, <<"t","a","b","i","b","2">>, <<"v","2">>, <<"v","o","l"," ","2">>, <<"v","o","l","u","m","e"," ","2">>, <<"r","e","s","p","i","r","a","t","o","r","i","a">>, <<"r","e","s","p","i","r","a","t","ó","r","i","a">>, <<"p","u","l","m","ã","o">>, <<"p","u","l","m","a","o">>, <<"i","m","u","n","i","d","a","d","e">>, <<"g","r","i","p","e">>, <<"r","e","s","f","r","i","a","d","o">>>>],
    [sku |-> <<"T","A","B","I","B","_","V","3">>, family |-> <<"t","a","b","i","b">>,
     name |-> <<"T","a","b","i","b"," ","V","o","l","u","m","e"," ","3",":"," ","S","a","ú","d","e"," ","D","i","g","e","s","t","i","v","a"," ","e"," ","M","e","t","a","b","ó","l","i","c","a">>,
     checkout |-> <<"h","t","t","p","s",":","/","/","s","o","m","a","s","o","u","n","d","s","o","l","u","t","i","o","n","s",".","m","y","c","a","r","t","p","a","n","d","a",".","c","o","m","/","c","h","e","c","k","o","u","t","/","1","6","6","9","1","9","6","8","6",":","1">>,
     aliases |-> <<<<"t","a","b","i","b"," ","3">>, <<"t","a","b","i","b","3">>, <<"v","3">>, <<"v","o","l"," ","3">>, <<"v","o","l","u","m","e"," ","3">>, <<"d","i","g","e","s","t","i","v","a">>, <<"m","e","t","a","b","ó","l","i","c","a">>, <<"m","e","t","a","b","o","l","i","c","a">>, <<"i","n","t","e","s","t","i","n","o">>, <<"r","e","f","l","u","x","o">>, <<"a","z","i","a">>>>],
    [sku |-> <<"T","A","B","I","B","_","V","4">>, family |-> <<"t","a","b","i","b">>,
     name |-> <<"T","a","b","i","b"," ","V","o","l","u","m","e"," ","4",":"," ","S","a","ú","d","e"," ","M","e","n","t","a","l"," ","e"," ","E","n","e","r","g","é","t","i","c","a">>,
     checkout |-> <<"h","t","t","p","s",":","/","/","s","o","m","a","s","o","u","n","d","s","o","l","u","t","i","o","n","s",".","m","y","c","a","r","t","p","a","n","d","a",".","c","o","m","/","c","h","e","c","k","o","u","t","/","1","6","6","9","1","9","7","0","1",":","1">>,
     aliases |-> <<<<"t","a","b","i","b"," ","4">>, <<"t","a","b","i","b","4">>, <<"v","4">>, <<"v","o","l"," ","4">>, <<"v","o","l","u","m","e"," ","4">>, <<"s","a","u","d","e"," ","m","e","n","t","a","l">>, <<"s","a","ú","d","e"," ","m","e","n","t","a","l">>, <<"e","n","e","r","g","i","a">>, <<"e","s","t","r","e","s","s","e">>, <<"a","n","s","i","e","d","a","d","e">>, <<"s","o","n","o">>>>],
    [sku |-> <<"T","A","B","I","B","_","F","U","L","L">>, family |-> <<"t","a","b","i","b">>,
     name |-> <<"T","a","b","i","b"," ","c","o","m","p","l","e","t","o">>,
     checkout |-> <<"h","t","t","p","s",":","/","/","s","o","m","a","s","o","u","n","d","s","o","l","u","t","i","o","n","s",".","m","y","c","a","r","t","p","a","n","d","a",".","c","o","m","/","c","h","e","c","k","o","u","t","/","1","8","4","2","2","9","2","7","7",":","1">>,
     aliases |-> <<<<"t","a","b","i","b"," ","c","o","m","p","l","e","t","o">>, <<"c","o","l","e","c","a","o"," ","t","a","b","i","b">>, <<"c","o","l","e","ç","ã","o"," ","t","a","b","i","b">>, <<"b","u","n","d","l","e"," ","t","a","b","i","b">>, <<"t","o","d","o","s"," ","o","s"," ","v","o","l","u","m","e","s">>>>],
    [sku |-> <<"T","A","B","I","B","_","2","4","_","2","5","_","B","U","N","D","L","E">>, family |-> <<"t","a","b","i","b">>,
     name |-> <<"T","a","b","i","b"," ","2","0","2","5"," ","+"," ","B","ô","n","u","s"," ","1","9",",","9","0"," ","+"," ","T","a","b","i","b"," ","2","0","2","4">>,
     checkout |-> <<"h","t","t","p","s",":","/","/","s","o","m","a","s","o","u","n","d","s","o","l","u","t","i","o","n","s",".","m","y","c","a","r","t","p","a","n","d","a",".","c","o","m","/","c","h","e","c","k","o","u","t","/","1","8","4","2","2","9","2","6","3",":","1">>,
     aliases |-> <<<<"t","a","b","i","b"," ","2","0","2","5">>, <<"t","a","b","i","b"," ","2","0","2","4">>, <<"t","a","b","i","b"," ","p","a","c","o","t","e">>, <<"t","a","b","i","b"," ","c","o","m","b","o">>, <<"t","a","b","i","b"," ","9","6","0"," ","r","e","c","e","i","t","a","s">>, <<"t","a","b","i","b"," ","t","o","d","o","s"," ","p","o","r"," ","1","9",",","9","0">>, <<"t","a","b","i","b"," ","1","9",",","9","0">>>>],
    [sku |-> <<"A","N","T","I","D","O","T","O">>, family |-> <<"a","n","t","i","d","o","t","o">>,
     name |-> <<"A","n","t","í","d","o","t","o"," ","-"," ","A","n","t","í","d","o","t","o","s"," ","i","n","d","í","g","e","n","a","s">>,
     checkout |-> <<"h","t","t","p","s",":","/","/","s","o","m","a","s","o","u","n","d","s","o","l","u","t","i","o","n","s",".","m","y","c","a","r","t","p","a","n","d","a",".","c","o","m","/","c","h","e","c","k","o","u","t","/","1","6","6","9","1","9","6","3","7",":","1">>,
     aliases |-> <<<<"a","n","t","i","d","o","t","o">>, <<"a","n","t","í","d","o","t","o">>, <<"o"," ","l","i","v","r","o"," ","a","n","t","i","d","o","t","o">>, <<"a","n","t","i","d","o","t","o","s"," ","i","n","d","i","g","e","n","a","s">>, <<"a","n","t","í","d","o","t","o","s"," ","i","n","d","í","g","e","n","a","s">>>>],
    [sku |-> <<"K","U","R","I","M","A">>, family |-> <<"k","u","r","i","m","a">>,
     name |-> <<"K","u","r","i","m","ã"," ","-"," ","Ó","l","e","o","s"," ","e","s","s","e","n","c","i","a","i","s">>,
     checkout |-> <<"h","t","t","p","s",":","/","/","s","o","m","a","s","o","u","n","d","s","o","l","u","t","i","o","n","s",".","m","y","c","a","r","t","p","a","n","d","a",".","c","o","m","/","c","h","e","c","k","o","u","t","/","1","6","6","9","1","9","6","6","1",":","1">>,
     aliases |-> <<<<"k","u","r","i","m","a">>, <<"o","l","e","o","s"," ","e","s","s","e","n","c","i","a","i","s">>, <<"ó","l","e","o","s"," ","e","s","s","e","n","c","i","a","i","s">>, <<"o","l","e","o"," ","e","s","s","e","n","c","i","a","l">>>>],
    [sku |-> <<"B","A","L","S","A","M","O">>, family |-> <<"b","a","l","s","a","m","o">>,
     name |-> <<"B","á","l","s","a","m","o"," ","-"," ","P","o","m","a","d","a","s"," ","n","a","t","u","r","a","i","s">>,
     checkout |-> <<"h","t","t","p","s",":","/","/","s","o","m","a","s","o","u","n","d","s","o","l","u","t","i","o","n","s",".","m","y","c","a","r","t","p","a","n","d","a",".","c","o","m","/","c","h","e","c","k","o","u","t","/","1","6","6","9","1","9","6","6","8",":","1">>,
     aliases |-> <<<<"b","a","l","s","a","m","o">>, <<"p","o","m","a","d","a","s"," ","n","a","t","u","r","a","i","s">>, <<"p","o","m","a","d","a"," ","n","a","t","u","r","a","l">>>>],
    [sku |-> <<"P","R","E","S","S","A","O","_","A","L","T","A","_","P","L","A","N">>, family |-> <<"p","r","e","s","s","a","o">>,
     name |-> <<"T","r","a","t","a","m","e","n","t","o"," ","N","a","t","u","r","a","l"," ","P","e","r","s","o","n","a","l","i","z","a","d","o"," ","p","a","r","a"," ","P","r","e","s","s","ã","o"," ","A","l","t","a">>,
     checkout |-> <<"h","t","t","p","s",":","/","/","s","o","m","a","s","o","u","n","d","s","o","l","u","t","i","o","n","s",".","m","y","c","a","r","t","p","a","n","d","a",".","c","o","m","/","c","h","e","c","k","o","u","t","/","1","7","4","5","0","2","4","3","2",":","1">>,
     aliases |-> <<<<"p","r","e","s","s","a","o"," ","a","l","t","a">>, <<"h","i","p","e","r","t","e","n","s","a","o">>, <<"t","r","a","t","a","m","e","n","t","o"," ","p","e","r","s","o","n","a","l","i","z","a","d","o">>, <<"h","i","p","e","r","t","e","n","s","ã","o">>>>],
    [sku |-> <<"A","I","R","F","R","Y","E","R","_","P","R","E","M","I","U","M">>, family |-> <<"a","i","r","f","r","y","e","r">>,
     name |-> <<"A","i","r","f","r","y","e","r"," ","d","o"," ","C","h","e","f"," ","P","R","E","M","I","U","M">>,
     checkout |-> <<"h","t","t","p","s",":","/","/","s","o","m","a","s","o","u","n","d","s","o","l","u","t","i","o","n","s",".","m","y","c","a","r","t","p","a","n","d","a",".","c","o","m","/","c","h","e","c","k","o","u","t","/","1","9","8","1","8","0","5","6","0",":","1">>,
     aliases |-> <<<<"a","i","r","f","r","y","e","r">>, <<"r","e","c","e","i","t","a","s"," ","a","i","r","f","r","y","e","r">>, <<"3","0","0"," ","r","e","c","e","i","t","a","s">>, <<"3","0","0"," ","r","e","c","e","i","t","a","s"," ","p","a","r","a"," ","a","i","r","f","r","y","e","r">>>>],
    [sku |-> <<"D","O","C","E","S","_","S","E","M","_","A","C","U","C","A","R">>, family |-> <<"a","i","r","f","r","y","e","r">>,
     name |-> <<"D","o","c","e","s"," ","s","e","m"," ","a","ç","ú","c","a","r"," ","-"," ","M","A","I","S"," ","D","E"," ","1","1","0"," ","R","E","C","E","I","T","A","S">>,
     checkout |-> <<"h","t","t","p","s",":","/","/","s","o","m","a","s","o","u","n","d","s","o","l","u","t","i","o","n","s",".","m","y","c","a","r","t","p","a","n","d","a",".","c","o","m","/","c","h","e","c","k","o","u","t","/","1","9","8","1","8","1","4","2","4",":","1">>,
     aliases |-> <<<<"a","i","r","f","r","y","e","r">>, <<"r","e","c","e","i","t","a","s"," ","a","i","r","f","r","y","e","r">>, <<"D","o","c","e","s"," ","s","e","m"," ","a","ç","ú","c","a","r">>, <<"3","0","0"," ","r","e","c","e","i","t","a","s"," ","p","a","r","a"," ","a","i","r","f","r","y","e","r">>, <<"d","o","c","e","s">>, <<"s","e","m"," ","a","ç","ú","c","a","r">>>>]
  >>

\* the family names and skus the code names
FAM_TABIB      == <<"t","a","b","i","b">>
FAM_AIRFRYER   == <<"a","i","r","f","r","y","e","r">>
FAM_MASTERCHEF == <<"m","a","s","t","e","r","c","h","e","f">>
SKU_TABIB_V1   == <<"T","A","B","I","B","_","V","1">>
SKU_TABIB_V2   == <<"T","A","B","I","B","_","V","2">>
SKU_TABIB_V3   == <<"T","A","B","I","B","_","V","3">>
SKU_TABIB_V4   == <<"T","A","B","I","B","_","V","4">>
SKU_TABIB_FULL == <<"T","A","B","I","B","_","F","U","L","L">>
SKU_TABIB_BUNDLE == <<"T","A","B","I","B","_","2","4","_","2","5","_","B","U","N","D","L","E">>

\* _infer_family(item), given fam = (item.get("family") or "").strip().lower()
\* and name = (item.get("name") or "").lower()
FamilyOf(fam, name) ==
  IF fam # <<>> THEN fam
  ELSE IF Contains(name, <<"t","a","b","i","b">>) THEN FAM_TABIB
  ELSE IF Contains(name, <<"a","i","r","f","r","y","e","r">>) THEN FAM_AIRFRYER
  ELSE IF Contains(name, <<"m","a","s","t","e","r","c","h","e","f">>) \/ Contains(name, <<"m","a","s","t","e","r"," ","c","h","e","f">>)
       THEN FAM_MASTERCHEF
  ELSE <<"o","u","t","r","o","s">>

\* an item without "family" has family ""
_infer_family(item) == FamilyOf(py_lower(py_strip(item.family)), py_lower(item.name))

\* re.findall(r"[a-z0-9]+", text.lower())
_safe_tokens(text) == FindRuns(py_lower(text), LowerAscii \cup Digits)

\* \d* at the start of s
TakeDigits(s) ==
  LET stop == {i \in 1..Len(s) : s[i] \notin Digits}
  IN  SubSeq(s, 1, IF stop = {} THEN Len(s) ELSE Nth(stop, 1) - 1)

\* the digits after the longest match of volume\s* that ends in ends
DigitsAfter(t, ends) ==
  IF ends = {} THEN <<>> ELSE TakeDigits(SubSeq(t, SetMax(ends), Len(t)))

\* group 1 of volume\s*(\d+) matched at position i of t, <<>> without a match
VolumeAt(t, i) ==
  DigitsAfter(t, MatchEnds(RCat(<<RLit(<<"v","o","l","u","m","e">>), RStar(RSp)>>), t, i))

\* group 1 of the leftmost match, the matches starting at the positions hits
VolumeFrom(t, hits) == IF hits = {} THEN <<>> ELSE VolumeAt(t, Nth(hits, 1))

VolumeIn(t) == VolumeFrom(t, {i \in 1..Len(t) : VolumeAt(t, i) # <<>>})

\* m = re.search(r"volume\s*(\d+)", name.lower()); m.group(1), or <<>> without a match
VolumeNumber(name) == VolumeIn(py_lower(name))

\* the item as _index_catalog leaves it: it["family"] = _infer_family(it)
Indexed(it) == [it EXCEPT !.family = _infer_family(it)]

\* the aliases added for volume v of a Tabib item
VolumeAliases(v) ==
  IF v = <<>> THEN {} ELSE {<<"v">> \o v, <<"v","o","l","u","m","e"," ">> \o v, <<"t","a","b","i","b"," ">> \o v}

\* the aliases of _index_catalog for one item
ItemAliases(it) ==
  {it.aliases[n] : n \in 1..Len(it.aliases)} \cup {it.name}
    \cup (IF _infer_family(it) = FAM_TABIB THEN VolumeAliases(VolumeNumber(it.name)) ELSE {})

SeqToSet(s) == {s[n] : n \in 1..Len(s)}

ItemTokens(it) == UNION {SeqToSet(_safe_tokens(a)) : a \in ItemAliases(it)}

\* the items of the catalog that have a sku, in order, each as the loop of
\* _index_catalog leaves it and with the tokens of its aliases
Entries(catalog, valid) ==
  [k \in 1..Cardinality(valid) |->
     [item |-> Indexed(catalog[Nth(valid, k)]), toks |-> ItemTokens(catalog[Nth(valid, k)])]]

\* the three indexes after the loop over the entries es, in which a later item
\* overwrites the keys of an earlier one and the family index collects the skus
\* in the order of the catalog
IndexOf(es) ==
  [bysku  |-> [sku \in {es[n].item.sku : n \in 1..Len(es)} |->
                 es[SetMax({n \in 1..Len(es) : es[n].item.sku = sku})].item],
   alias  |-> [tok \in UNION {es[n].toks : n \in 1..Len(es)} |->
                 es[SetMax({n \in 1..Len(es) : tok \in es[n].toks})].item.sku],
   family |-> [f \in {es[n].item.family : n \in 1..Len(es)} |->
                 SeqOver({n \in 1..Len(es) : es[n].item.family = f}, LAMBDA n : es[n].item.sku)]]

\* _index_catalog(): [bysku |-> CatalogBySKU, alias |-> AliasIndex, family |-> FamilyIndex]
_index_catalog ==
  IndexOf(Entries(Catalog, {n \in 1..Len(Catalog) : Catalog[n].sku # <<>>}))

CatalogBySKU == _index_catalog.bysku
AliasIndex   == _index_catalog.alias
FamilyIndex  == _index_catalog.family

\* out: the items of hits, the first occurrence of each sku kept
Dedup(hits) ==
  SeqOver({i \in 1..Len(hits) : \A j \in 1..(i - 1) : hits[j].sku # hits[i].sku},
          LAMBDA i : hits[i])

\* the loop over toks (431-434)
AliasHits(toks, index) ==
  SeqOver({k \in 1..Len(toks) : /\ toks[k] \in DOMAIN index.alias
                                 /\ index.alias[toks[k]] \in DOMAIN index.bysku},
          LAMBDA k : index.bysku[index.alias[toks[k]]])

\* the loop over Catalog (436-439)
NameHits(toks, catalog) ==
  SeqOver({n \in 1..Len(catalog) :
             \A k \in 1..Len(toks) : Contains(py_lower(catalog[n].name), toks[k])},
          LAMBDA n : Indexed(catalog[n]))

\* hits after the two loops, hits1 being hits after the first
HitsOf(toks, hits1) ==
  IF Len(hits1) = 0 /\ Len(toks) # 0 THEN NameHits(toks, Catalog) ELSE hits1

FindByTokens(toks) == Dedup(HitsOf(toks, AliasHits(toks, _index_catalog)))

find_by_text(text) == FindByTokens(_safe_tokens(text))

\* None is the record NoItem
NoItem == [sku |-> None, family |-> None, name |-> <<>>, checkout |-> <<>>, aliases |-> <<>>]

\* bysku.get(sku), bysku being CatalogBySKU
SkuItem(bysku, sku) == IF sku \in DOMAIN bysku THEN bysku[sku] ELSE NoItem

\* FAMILY_INDEX.get(f) and CatalogBySKU.get(skus[0])
FamilyItem(index, f) ==
  IF f \in DOMAIN index.family THEN SkuItem(index.bysku, index.family[f][1]) ELSE NoItem

pick_family_item(fam) == FamilyItem(_index_catalog, py_lower(fam))

\* bysku.get("TABIB_24_25_BUNDLE") or bysku.get("TABIB_FULL")
BundleOf(bysku) ==
  IF SKU_TABIB_BUNDLE \in DOMAIN bysku THEN bysku[SKU_TABIB_BUNDLE]
  ELSE SkuItem(bysku, SKU_TABIB_FULL)

TabibBundleItem == BundleOf(CatalogBySKU)

\* the item of a digit 1-5, bysku being CatalogBySKU
ChoiceOf(bysku, num) ==
  CASE num = <<"1">> -> SkuItem(bysku, SKU_TABIB_V1)
    [] num = <<"2">> -> SkuItem(bysku, SKU_TABIB_V2)
    [] num = <<"3">> -> SkuItem(bysku, SKU_TABIB_V3)
    [] num = <<"4">> -> SkuItem(bysku, SKU_TABIB_V4)
    [] num = <<"5">> -> BundleOf(bysku)

find_tabib_choice_by_number(num) ==
  IF ~ re_fullmatch(RCls({"1","2","3","4","5"}), num) THEN NoItem
  ELSE ChoiceOf(CatalogBySKU, num)

\* ------------------------------------------------------------------------
\* Offers (offer_rules.py)
\* ------------------------------------------------------------------------
\* n = (name or "").lower()
ClassOf(n) ==
  IF Contains(n, <<"t","a","b","i","b">>) THEN "tabib"
  ELSE IF Contains(n, <<"a","i","r","f","r","y","e","r">>) \/ Contains(n, <<"a","i","r"," ","f","r","y","e","r">>)
          \/ (Contains(n, <<"a","i","r">>) /\ Contains(n, <<"f","r","y">>)) THEN "airfryer"
  ELSE IF \E k \in {<<"b","u","n","d","l","e">>, <<"c","o","m","b","o">>, <<"k","i","t">>, <<"p","a","c","o","t","e">>} : Contains(n, k)
       THEN "bundle"
  ELSE "generic"

classify_product(name) == ClassOf(py_lower(name))

\* the headline of the offer of product class p
Headline(p) ==
  CASE p = "tabib"    -> "Cupom TABIB10 liberado"
    [] p = "airfryer" -> "Bônus Air Fryer"
    [] p = "bundle"   -> "Upgrade para Combo -25%"
    [] OTHER          -> "Condição especial"

\* build_offer(product_name): the headline of the (headline, detail) pair
build_offer(product_name) == Headline(classify_product(product_name))

\* ------------------------------------------------------------------------
\* Inputs of the model
\* ------------------------------------------------------------------------
\* S(s) is the character sequence of the str s, for the strs of the inputs
Chars ==
  ("" :> <<>>)
  @@ (" " :> <<" ">>)
  @@ ("  " :> <<" "," ">>)
  @@ ("  SIM  " :> <<" "," ","S","I","M"," "," ">>)
  @@ (" Checkout_Abandoned " :> <<" ","C","h","e","c","k","o","u","t","_","A","b","a","n","d","o","n","e","d"," ">>)
  @@ ("(11) 98888-7777" :> <<"(","1","1",")"," ","9","8","8","8","8","-","7","7","7","7">>)
  @@ ("1" :> <<"1">>)
  @@ ("11988887777" :> <<"1","1","9","8","8","8","8","7","7","7","7">>)
  @@ ("123" :> <<"1","2","3">>)
  @@ ("2" :> <<"2">>)
  @@ ("3" :> <<"3">>)
  @@ ("4" :> <<"4">>)
  @@ ("5" :> <<"5">>)
  @@ ("5511988887777" :> <<"5","5","1","1","9","8","8","8","8","7","7","7","7">>)
  @@ ("Airfryer do Chef" :> <<"A","i","r","f","r","y","e","r"," ","d","o"," ","C","h","e","f">>)
  @@ ("Ana" :> <<"A","n","a">>)
  @@ ("Application/JSON; charset=utf-8" :> <<"A","p","p","l","i","c","a","t","i","o","n","/","J","S","O","N",";"," ","c","h","a","r","s","e","t","=","u","t","f","-","8">>)
  @@ ("PARE!!!" :> <<"P","A","R","E","!","!","!">>)
  @@ ("PTT" :> <<"P","T","T">>)
  @@ ("Sim, sou eu" :> <<"S","i","m",","," ","s","o","u"," ","e","u">>)
  @@ ("Tabib Volume 2" :> <<"T","a","b","i","b"," ","V","o","l","u","m","e"," ","2">>)
  @@ ("Voice" :> <<"V","o","i","c","e">>)
  @@ ("aceita pix" :> <<"a","c","e","i","t","a"," ","p","i","x">>)
  @@ ("airfryer" :> <<"a","i","r","f","r","y","e","r">>)
  @@ ("application/json" :> <<"a","p","p","l","i","c","a","t","i","o","n","/","j","s","o","n">>)
  @@ ("application/x-www-form-urlencoded" :> <<"a","p","p","l","i","c","a","t","i","o","n","/","x","-","w","w","w","-","f","o","r","m","-","u","r","l","e","n","c","o","d","e","d">>)
  @@ ("até quando" :> <<"a","t","é"," ","q","u","a","n","d","o">>)
  @@ ("audio" :> <<"a","u","d","i","o">>)
  @@ ("bundle" :> <<"b","u","n","d","l","e">>)
  @@ ("cadê o email" :> <<"c","a","d","ê"," ","o"," ","e","m","a","i","l">>)
  @@ ("call_log" :> <<"c","a","l","l","_","l","o","g">>)
  @@ ("checkout_abandoned" :> <<"c","h","e","c","k","o","u","t","_","a","b","a","n","d","o","n","e","d">>)
  @@ ("como funciona" :> <<"c","o","m","o"," ","f","u","n","c","i","o","n","a">>)
  @@ ("depois eu pago no pix" :> <<"d","e","p","o","i","s"," ","e","u"," ","p","a","g","o"," ","n","o"," ","p","i","x">>)
  @@ ("desisti" :> <<"d","e","s","i","s","t","i">>)
  @@ ("dores" :> <<"d","o","r","e","s">>)
  @@ ("eu" :> <<"e","u">>)
  @@ ("https://pay.example/c/1" :> <<"h","t","t","p","s",":","/","/","p","a","y",".","e","x","a","m","p","l","e","/","c","/","1">>)
  @@ ("isso mesmo" :> <<"i","s","s","o"," ","m","e","s","m","o">>)
  @@ ("isso não é meu" :> <<"i","s","s","o"," ","n","ã","o"," ","é"," ","m","e","u">>)
  @@ ("já comprei" :> <<"j","á"," ","c","o","m","p","r","e","i">>)
  @@ ("já comprei o antidoto" :> <<"j","á"," ","c","o","m","p","r","e","i"," ","o"," ","a","n","t","i","d","o","t","o">>)
  @@ ("masterchef" :> <<"m","a","s","t","e","r","c","h","e","f">>)
  @@ ("não" :> <<"n","ã","o">>)
  @@ ("não quero" :> <<"n","ã","o"," ","q","u","e","r","o">>)
  @@ ("não quero o bálsamo" :> <<"n","ã","o"," ","q","u","e","r","o"," ","o"," ","b","á","l","s","a","m","o">>)
  @@ ("não recebi o link" :> <<"n","ã","o"," ","r","e","c","e","b","i"," ","o"," ","l","i","n","k">>)
  @@ ("não, desisti" :> <<"n","ã","o",","," ","d","e","s","i","s","t","i">>)
  @@ ("o que" :> <<"o"," ","q","u","e">>)
  @@ ("obrigado" :> <<"o","b","r","i","g","a","d","o">>)
  @@ ("oi" :> <<"o","i">>)
  @@ ("oi, pare" :> <<"o","i",","," ","p","a","r","e">>)
  @@ ("order_paid" :> <<"o","r","d","e","r","_","p","a","i","d">>)
  @@ ("pacote" :> <<"p","a","c","o","t","e">>)
  @@ ("pare" :> <<"p","a","r","e">>)
  @@ ("pare de mandar" :> <<"p","a","r","e"," ","d","e"," ","m","a","n","d","a","r">>)
  @@ ("pare, qual o preço" :> <<"p","a","r","e",","," ","q","u","a","l"," ","o"," ","p","r","e","ç","o">>)
  @@ ("pix_pending" :> <<"p","i","x","_","p","e","n","d","i","n","g">>)
  @@ ("preço com desconto" :> <<"p","r","e","ç","o"," ","c","o","m"," ","d","e","s","c","o","n","t","o">>)
  @@ ("qual o frete" :> <<"q","u","a","l"," ","o"," ","f","r","e","t","e">>)
  @@ ("qual o preço" :> <<"q","u","a","l"," ","o"," ","p","r","e","ç","o">>)
  @@ ("qual o valor do frete" :> <<"q","u","a","l"," ","o"," ","v","a","l","o","r"," ","d","o"," ","f","r","e","t","e">>)
  @@ ("quero o link" :> <<"q","u","e","r","o"," ","o"," ","l","i","n","k">>)
  @@ ("quero o volume 3" :> <<"q","u","e","r","o"," ","o"," ","v","o","l","u","m","e"," ","3">>)
  @@ ("reenviar" :> <<"r","e","e","n","v","i","a","r">>)
  @@ ("sim" :> <<"s","i","m">>)
  @@ ("sim, paguei" :> <<"s","i","m",","," ","p","a","g","u","e","i">>)
  @@ ("sou eu" :> <<"s","o","u"," ","e","u">>)
  @@ ("tabib" :> <<"t","a","b","i","b">>)
  @@ ("tem desconto" :> <<"t","e","m"," ","d","e","s","c","o","n","t","o">>)
  @@ ("text" :> <<"t","e","x","t">>)
  @@ ("text/plain" :> <<"t","e","x","t","/","p","l","a","i","n">>)
  @@ ("todos" :> <<"t","o","d","o","s">>)
  @@ ("unitario" :> <<"u","n","i","t","a","r","i","o">>)
  @@ ("unitarios" :> <<"u","n","i","t","a","r","i","o","s">>)
  @@ ("v2" :> <<"v","2">>)
  @@ ("valeu, já paguei" :> <<"v","a","l","e","u",","," ","j","á"," ","p","a","g","u","e","i">>)
  @@ ("vlw" :> <<"v","l","w">>)
  @@ ("voltar" :> <<"v","o","l","t","a","r">>)
  @@ ("volume 2" :> <<"v","o","l","u","m","e"," ","2">>)
  @@ ("xyz" :> <<"x","y","z">>)
  @@ ("é golpe" :> <<"é"," ","g","o","l","p","e">>)

S(s) == Chars[s]

\* the text of an inbound WhatsApp message
Messages ==
  {S("sim"), S("1"), S("não"), S("2"), S("pare"), S("oi"), S("quero o volume 3"), S("tabib"), S("airfryer"),
   S("masterchef"), S("qual o preço"), S("voltar"), S("todos"), S("unitarios"), S("dores"), S("já comprei"),
   S("xyz"), S("Sim, sou eu"), S("quero o link"), S("  SIM  "), S(" "),
   S("já comprei o antidoto"), S("não quero o bálsamo"),
   S("tem desconto"), S("v2"), S("volume 2"), S("4"), S("5"), S("3"), S("bundle"), S("unitario"), S("o que"),
   S("isso não é meu"), S("pacote"), S("oi, pare"), S("pare de mandar")}

\* customer.phone of a checkout event, phone of an inbound message
RawPhones == {S("11988887777"), S("5511988887777"), S("(11) 98888-7777"), S("123"), S("")}

\* the texts detect_intent is called with on its own: one or more for each
\* intent, and texts that match the patterns of several intents
IntentTexts ==
  {S("oi"), S("obrigado"), S("pare"), S("qual o frete"), S("aceita pix"), S("qual o preço"),
   S("tem desconto"), S("até quando"), S("quero o link"), S("como funciona"), S("cadê o email"),
   S("reenviar"), S("é golpe"), S("sim"), S("1"), S("não"), S("2"), S("já comprei"), S("desisti"),
   S("xyz"), S(""),
   S("pare, qual o preço"), S("oi, pare"), S("qual o valor do frete"), S("sim, paguei"),
   S("não recebi o link"), S("preço com desconto"), S("não quero"), S("depois eu pago no pix"),
   S("valeu, já paguei"), S("não, desisti"), S("PARE!!!"), S("vlw")}

\* the longest run of digits in a phone normalize_phone is called with on its own
MaxDigits == 11

\* the i-th digit of such a phone
DigitAt(i) == <<"1","1","9","8","8","8","8","7","7","7","7">>[((i - 1) % 11) + 1]

\* digit strings of every length up to MaxDigits
PlainPhones == {[i \in 1..n |-> DigitAt(i)] : n \in 0..MaxDigits}

\* the digits d as a person writes them: "(1-1-9-8-..."
Punctuated(d) == <<"(">> \o [i \in 1..(2 * Len(d)) |-> IF i % 2 = 1 THEN d[(i + 1) \div 2] ELSE "-"]

\* the raw phones normalize_phone is called with on its own: missing, bare
\* digits, digits after the country code, and both with punctuation
PhoneInputs ==
  {<<"None">>} \cup PlainPhones \cup {<<"5","5">> \o d : d \in PlainPhones}
    \cup {Punctuated(d) : d \in PlainPhones}
    \cup {<<"+","5","5"," ">> \o Punctuated(d) : d \in PlainPhones}

\* ------------------------------------------------------------------------
\* Configuration (main.py 57-70)
\* ------------------------------------------------------------------------
OFFER_TTL_MIN == 60

\* ------------------------------------------------------------------------
\* State
\* ------------------------------------------------------------------------
VARIABLES
  now,        \* now_utc(), in minutes
  config,     \* the environment the process started with:
              \*   redis (bool(rds)), cartpanda_secret, zapi_secret
  redis_up,   \* whether a call on rds reaches the Redis server (else it raises)
  redis_db,   \* the keys of the Redis server: key -> [exp, data]
  _MEM,       \* the process-local map: key -> [exp, data]
  inbound,    \* the last request handled: its kind, its phone and text, what
              \* read_ctx held for the phone before (see Found), the status and
              \* the reason/note of the response
  outbox,     \* what zapi_send_text was called with while handling it
  calls,      \* the functions of the routing entered while handling it
  handled,    \* the number of requests handled so far
  op,         \* the last call of a function made on its own (store_ctx, read_ctx,
              \*   clear_ctx or a helper): its name, its argument (phone), what it
              \*   returned (ret), and a second result to compare it with (twin)
  tasks,      \* the handlers of inbound messages that run at the same time: per
              \*   handler (of) whether it is suspended in a send, the text it
              \*   handles, the context it read, what it has left to do (rest) and
              \*   what its turn leaves when nothing runs beside it (alone); and
              \*   the handler that stored or cleared a context last
  hist        \* per phone, what those calls did last: nothing yet, stored a
              \*   context (which, and when), or cleared it

vars == <<now, config, redis_up, redis_db, _MEM, inbound, outbox, calls, handled, op, hist, tasks>>

\* ------------------------------------------------------------------------
\* Phone and context store (main.py 165-223)
\* ------------------------------------------------------------------------
\* \D+
RE_NON_DIGITS ==
  RPlus(RNot(Digits))

\* a variant of normalize_phone that prepends the country code without looking
\* whether the digits already begin with it; C13_NormalizeIdempotent tells it
\* from the code
WithCountry_always_prefix(digits) ==
  IF Len(digits) >= 10 THEN <<"5","5">> \o digits ELSE None

\* digits = re.sub(r"\D+", "", raw)
WithCountry(digits) ==
  IF StartsWith(digits, <<"5","5">>) THEN digits
  ELSE IF Len(digits) >= 10 THEN <<"5","5">> \o digits
  ELSE None

normalize_phone(raw) ==
  IF raw = None \/ raw = <<>> THEN None
  ELSE WithCountry(re_sub(RE_NON_DIGITS, <<>>, raw, 1))

minutes_from_now(m) == now + m

ttl_seconds(minutes) == minutes * 60

\* the keys of a context whose values are bool, and those whose str values the
\* model writes as symbolic strings (their None is NoneSym)
BoolKeys == {"confirmed_owner", "reminded", "tabib_bundle"}
SymKeys  == {"flow", "stage", "asked", "last_intent"}

\* None as it is written under key k
NoneOf(k) == IF k \in SymKeys THEN NoneSym ELSE None

\* json.dumps of the value v kept under key k: true, false, null or a string
JsonOf(k, v) ==
  IF k \in BoolKeys THEN <<"literal", IF v THEN "true" ELSE "false">>
  ELSE IF v = NoneOf(k) THEN <<"literal", "null">>
  ELSE <<"string", v>>

\* json.loads of the JSON value j kept under key k
PyOf(k, j) ==
  IF j[1] = "string" THEN j[2]
  ELSE IF j[2] = "null" THEN NoneOf(k)
  ELSE j[2] = "true"

\* json.dumps(ctx, ensure_ascii=False): a context is a dict of str keys
json_dumps(ctx) == [k \in DOMAIN ctx |-> JsonOf(k, ctx[k])]

\* json.loads(raw)
json_loads(raw) == [k \in DOMAIN raw |-> PyOf(k, raw[k])]

CtxKey(phone) == <<"c","t","x",":">> \o phone

\* a dict without the key k
DictPop(d, k) == [x \in (DOMAIN d) \ {k} |-> d[x]]

\* a dict with d[k] = v
DictSet(d, k, v) == (k :> v) @@ d

\* rds.setex(key, seconds, data): the key expires once `seconds` have passed
redis_setex(db, key, seconds, data) ==
  DictSet(db, key, [exp |-> now + (seconds \div 60), data |-> data])

\* the keys of db that the server still holds at time `now`
redis_live(db) == [k \in {x \in DOMAIN db : ~ (now > db[x].exp)} |-> db[k]]

\* rds.delete(key)
redis_delete(db, key) == DictPop(db, key)

\* a variant of store_ctx whose memory path takes the seconds of the time to
\* live for minutes; C9_StoreReadTTL tells it from the code
store_ctx_seconds_as_minutes(st, phone, ctx, minutes) ==
  IF st.rds /\ st.up
  THEN [st EXCEPT !.db = redis_setex(redis_live(st.db), CtxKey(phone), ttl_seconds(minutes),
                                     json_dumps(ctx))]
  ELSE [st EXCEPT !.mem = DictSet(st.mem, CtxKey(phone),
                                  [exp |-> now + ttl_seconds(minutes), data |-> json_dumps(ctx)])]

\* the store as the three functions see and leave it:
\*   rds  bool(rds), whether a Redis client was configured
\*   up   whether a call on rds returns (else it raises, and the except branch
\*        falls through to the memory path)
\*   db   the keys of the Redis server,  mem  _MEM,  ret  the value returned
\* store_ctx(phone, ctx, minutes)
store_ctx(st, phone, ctx, minutes) ==
  LET key  == CtxKey(phone)
      data == json_dumps(ctx)
  IN  IF st.rds /\ st.up
      THEN [st EXCEPT !.db = redis_setex(redis_live(st.db), key, ttl_seconds(minutes), data)]
      ELSE [st EXCEPT !.mem = DictSet(st.mem, key, [exp |-> now + minutes, data |-> data])]

\* read_ctx(phone): ret is the context, or NoCtx for None
NoCtx == [none |-> TRUE]

read_ctx(st, phone) ==
  LET key == CtxKey(phone)
  IN  IF st.rds /\ st.up
      THEN LET db == redis_live(st.db)
           IN  [st EXCEPT !.db = db,
                          !.ret = IF key \in DOMAIN db THEN json_loads(db[key].data) ELSE NoCtx]
      ELSE IF key \notin DOMAIN st.mem THEN [st EXCEPT !.ret = NoCtx]
      ELSE IF now > st.mem[key].exp
           THEN [st EXCEPT !.mem = DictPop(st.mem, key), !.ret = NoCtx]
      ELSE [st EXCEPT !.ret = json_loads(st.mem[key].data)]

\* clear_ctx(phone)
clear_ctx(st, phone) ==
  LET key == CtxKey(phone)
  IN  IF st.rds /\ st.up
      THEN [st EXCEPT !.db = redis_delete(redis_live(st.db), key)]
      ELSE [st EXCEPT !.mem = DictPop(st.mem, key)]

\* ------------------------------------------------------------------------
\* What the routing reads from the text of a message, computed once per message
\* ------------------------------------------------------------------------
\* text: the message as extract_phone_and_text returns it (text.strip());
\* tlow: (text or "").strip().lower() of route_stage
FactsOf(text, tlow) ==
  [\* zapi_webhook 1189
   owner_yes    |-> matches(text, YES_PATTERNS)
                    \/ py_lower(text) \in {<<"s","o","u"," ","e","u">>, <<"i","s","s","o"," ","m","e","s","m","o">>, <<"e","u">>, <<"1">>},
   intent       |-> detect_intent(text),
   pk           |-> detect_product_key(text),
   items        |-> find_by_text(text),
   \* route_stage 950, 961, 969
   verify_yes   |-> is_option(tlow, {<<"1">>, <<"s","i","m">>, <<"s","o","u"," ","e","u">>, <<"i","s","s","o"," ","m","e","s","m","o">>, <<"e","u">>}),
   verify_no    |-> is_option(tlow, {<<"2">>, <<"n","ã","o">>, <<"n","a","o">>, <<"n","ã","o"," ","s","o","u">>, <<"n","a","o"," ","s","o","u">>}),
   has_tabib    |-> Contains(tlow, <<"t","a","b","i","b">>),
   \* route_stage 1002, 1016, 1022
   main_bundle  |-> tlow \in {<<"1">>, <<"t","o","d","o","s">>, <<"b","u","n","d","l","e">>, <<"p","a","c","o","t","e">>},
   main_units   |-> tlow \in {<<"2">>, <<"u","n","i","t","a","r","i","o">>, <<"u","n","i","t","a","r","i","o","s">>, <<"u","n","i","t","á","r","i","o","s">>},
   main_back    |-> tlow \in {<<"3">>, <<"v","o","l","t","a","r">>, <<"b","a","c","k">>},
   \* route_stage 1041: \b(todos|bundle|pacote|19[,\.]?90)\b
   desc_bundle  |-> re_search(RCat(<<RWB, RAlt(<<RLit(<<"t","o","d","o","s">>), RLit(<<"b","u","n","d","l","e">>), RLit(<<"p","a","c","o","t","e">>), RCat(<<RLit(<<"1","9">>), ROpt(RCls({",","."})), RLit(<<"9","0">>)>>)>>), RWB>>), tlow),
   \* route_stage 1054: \bunit[aá]ri[oa]s?\b
   desc_units   |-> re_search(RCat(<<RWB, RLit(<<"u","n","i","t">>), RCls({"a","á"}), RLit(<<"r","i">>), RCls({"o","a"}), ROpt(RLit(<<"s">>)), RWB>>), tlow)
                    \/ tlow \in {<<"2">>, <<"u","n","i","t","a","r","i","o">>, <<"u","n","i","t","a","r","i","o","s">>, <<"u","n","i","t","á","r","i","o","s">>},
   \* route_stage 1064-1065: [1-4]
   unit_digit   |-> re_fullmatch(RCls({"1","2","3","4"}), tlow),
   unit_item    |-> find_tabib_choice_by_number(tlow),
   \* route_stage 1098-1099: \s*[1-5]\s*
   menu_digit   |-> re_fullmatch(RCat(<<RStar(RSp), RCls({"1","2","3","4","5"}), RStar(RSp)>>), tlow),
   menu_item    |-> find_tabib_choice_by_number(py_strip(tlow))]

\* text: the message as extract_phone_and_text returns it
FactsOfText(text) == FactsOf(text, py_lower(py_strip(text)))

\* raw: the message as received
TextFacts(raw) == FactsOfText(py_strip(raw))

Tx == [m \in Messages |-> TextFacts(m)]

PhoneOf == [p \in RawPhones \cup {None} |-> normalize_phone(p)]

\* ------------------------------------------------------------------------
\* Effects of a handler, in program order
\* ------------------------------------------------------------------------
EStore(phone, ctx, minutes) == <<"store", phone, ctx, minutes>>  \* store_ctx(...)
EClear(phone)               == <<"clear", phone>>                \* clear_ctx(phone)
ESend(phone, msg)           == <<"send", phone, msg>>            \* await zapi_send_text(...)
ECall(fn, arg)              == <<"call", fn, arg>>               \* fn entered
ERead(phone)                == <<"read", phone>>                 \* read_ctx(phone)

\* an outbound message: which template of the code, and what it carries
Reply(kind) == [kind |-> kind, sku |-> None, link |-> <<>>, offer |-> ""]

\* a template built from catalog item it: describe_item(it), build_offer(it.name),
\* link = it.get("checkout") or ctx.get("checkout_url", "")
ItemReply(kind, it, ctx) ==
  [kind |-> kind, sku |-> it.sku,
   link |-> IF it.checkout # <<>> THEN it.checkout ELSE ctx.checkout_url,
   offer |-> build_offer(it.name)]

\* ctx.get(k): none (the None of the values kept under k) when the key is missing
Get(ctx, k, none) == IF k \in DOMAIN ctx THEN ctx[k] ELSE none

\* ------------------------------------------------------------------------
\* Offer and stage helpers (main.py 513-526)
\* ------------------------------------------------------------------------
\* datetime.isoformat() writes an instant as text, datetime.fromisoformat() reads
\* the instant back from the text
isoformat(t) == <<"iso", t>>
fromisoformat(iso) == iso[2]

\* a variant of set_checkout_stage that moves to checkout without stamping the
\* end of the offer; C16_CheckoutStampsOffer tells it from the code
set_checkout_stage_no_stamp(ctx) ==
  [ctx EXCEPT !.stage = "checkout", !.reminded = ctx.reminded \/ FALSE]

set_checkout_stage(ctx) ==
  [ctx EXCEPT !.stage = "checkout",
              !.offer_expires_at = isoformat(minutes_from_now(OFFER_TTL_MIN)),
              !.reminded = ctx.reminded \/ FALSE]

\* a variant of offer_expired for which no offer expires; C4_ExpiredOfferRenewal
\* tells it from the code
offer_expired_never(ctx) == FALSE

\* a variant of offer_expired for which the offer is over at the instant of
\* offer_expires_at already; C15_OfferExpiredStrictly tells it from the code
offer_expired_on_time(ctx) ==
  IF Get(ctx, "offer_expires_at", None) = None THEN FALSE
  ELSE now >= fromisoformat(ctx.offer_expires_at)

\* iso = ctx.get("offer_expires_at"): a missing key reads as None
offer_expired(ctx) ==
  IF Get(ctx, "offer_expires_at", None) = None THEN FALSE
  ELSE now > fromisoformat(ctx.offer_expires_at)

\* ------------------------------------------------------------------------
\* Intent handler (main.py 725-894)
\* ------------------------------------------------------------------------
\* store_ctx(phone, ctx) without minutes
STORE_MINUTES == 180

\* the message a template of the code produces is named by the template:
\*   item_desc_menu   describe_item(it) + "Quer ver *todos* por 19,90 ou *unitários*?"
\*   item_offer       describe_item(it), headline, detail, "Link para concluir: {link}"
\*   tabib_main       "Perfeito! Para o Tabib, prefere: 1) **Todos** ... 3) Voltar"
\*   site_offer       headline, detail, "Acesse: {SITE_URL}"
\*   farewell         "Entendido. Vou encerrar por aqui. ..."
\*   bought           "Obrigada pela compra! ..."
\*   price_offer      headline, detail, "Quer que eu gere o link com a condição?"
\*   intro            "Oi, aqui é {ASSISTANT_NAME} da {BRAND_NAME}. Como posso ajudar?"
\* ctx["selected_product"] = pk; ctx["product_key"] = pk, when the text names a product
WithProduct(ctx, pk) ==
  IF pk # None THEN [ctx EXCEPT !.selected_product = pk, !.product_key = pk] ELSE ctx

\* ctx["stage"] = "tabib_menu"; ctx["tabib_bundle"] = False; ctx["asked"] = asked
TabibMenuCtx(ctx, asked) ==
  DictSet([ctx EXCEPT !.stage = "tabib_menu", !.asked = asked], "tabib_bundle", FALSE)

\* items = find_by_text(text); it = items[0] (732-751)
intent_item(phone, ctx, it) ==
  IF it.family = FAM_TABIB /\ StartsWith(it.sku, <<"T","A","B","I","B","_","V">>)
  THEN <<ESend(phone, [Reply("item_desc_menu") EXCEPT !.sku = it.sku]),
         EStore(phone, DictSet(TabibMenuCtx(ctx, "tabib_after_desc"), "last_item_sku", it.sku),
                STORE_MINUTES)>>
  ELSE <<EStore(phone, set_checkout_stage(ctx), STORE_MINUTES),
         ESend(phone, ItemReply("item_offer", it, ctx))>>

\* it = pick_family_item(pk_from_text) (773-783)
intent_family(phone, ctx, it) ==
  IF it # NoItem
  THEN <<EStore(phone, set_checkout_stage(ctx), STORE_MINUTES),
         ESend(phone, ItemReply("item_offer", it, ctx))>>
  ELSE <<ESend(phone, Reply("site_offer"))>>

\* pk_from_text = detect_product_key(text), not None (754-783)
intent_product(phone, ctx, pk) ==
  IF pk = FAM_TABIB
  THEN <<EStore(phone, TabibMenuCtx(ctx, "tabib_main"), STORE_MINUTES),
         ESend(phone, Reply("tabib_main"))>>
  ELSE intent_family(phone, ctx, pick_family_item(pk))

\* the branches on intent (785-894)
intent_reply(phone, ctx, intent) ==
  IF intent \in {"stop", "quit"}
  THEN <<ESend(phone, Reply("farewell")), EClear(phone)>>
  ELSE IF intent = "bought"
  THEN <<EClear(phone), ESend(phone, Reply("bought"))>>
  ELSE IF intent = "trust"
  THEN <<ESend(phone, Reply("trust")),
         EStore(phone, [ctx EXCEPT !.asked = NoneSym], STORE_MINUTES)>>
  ELSE IF intent = "shipping"
  THEN <<ESend(phone, Reply("shipping")),
         EStore(phone, [ctx EXCEPT !.asked = "resend_link"], STORE_MINUTES)>>
  ELSE IF intent = "payment"
  THEN <<ESend(phone, Reply("payment")), EStore(phone, ctx, STORE_MINUTES)>>
  ELSE IF intent \in {"price", "discount", "deadline"}
  THEN <<ESend(phone, [Reply("price_offer") EXCEPT
                         !.offer = build_offer(IF ctx.product_name # <<>> THEN ctx.product_name
                                               ELSE <<"s","e","u"," ","p","r","o","d","u","t","o">>)]),
         EStore(phone, [ctx EXCEPT !.asked = "apply_offer"], STORE_MINUTES)>>
  ELSE IF intent = "link"
  THEN <<ESend(phone, Reply("site_link")), EStore(phone, ctx, STORE_MINUTES)>>
  ELSE IF intent = "product_info"
  THEN <<ESend(phone, Reply("product_info")), EStore(phone, ctx, STORE_MINUTES)>>
  ELSE IF intent = "email_missing"
  THEN <<ESend(phone, Reply("email_missing")),
         EStore(phone, [ctx EXCEPT !.asked = "resend_link"], STORE_MINUTES)>>
  ELSE IF intent = "resend"
  THEN <<ESend(phone, Reply("resend")),
         EStore(phone, [ctx EXCEPT !.asked = "resend_link"], STORE_MINUTES)>>
  ELSE IF intent = "greeting"
  THEN <<ESend(phone, Reply(IF ~ ctx.confirmed_owner THEN "intro" ELSE "greeting")),
         EStore(phone, ctx, STORE_MINUTES)>>
  ELSE IF intent = "thanks"
  THEN <<ESend(phone, Reply("thanks")), EStore(phone, ctx, STORE_MINUTES)>>
  ELSE IF intent = "unknown"
  THEN <<ESend(phone, Reply("not_understood")), EStore(phone, ctx, STORE_MINUTES)>>
  ELSE <<ESend(phone, Reply(IF ctx.flow = "pix_pending" THEN "pix_pending"
                            ELSE "help_conclude")),
         EStore(phone, ctx, STORE_MINUTES)>>

handle_intent(phone, ctx, tx, intent) ==
  <<ECall("handle_intent", intent)>> \o
  (IF tx.items # <<>> THEN intent_item(phone, ctx, tx.items[1])
   ELSE IF tx.pk # None THEN intent_product(phone, WithProduct(ctx, tx.pk), tx.pk)
   ELSE intent_reply(phone, ctx, intent))

\* ------------------------------------------------------------------------
\* Stage router (main.py 901-1118)
\* ------------------------------------------------------------------------
\* set_checkout_stage(ctx); ctx["asked"] = None
CheckoutAskedNone(ctx) == [set_checkout_stage(ctx) EXCEPT !.asked = NoneSym]

\* the branch of an item chosen in the Tabib menu: offer it and move to checkout
OfferItem(phone, ctx, it, kind) ==
  <<EStore(phone, CheckoutAskedNone(ctx), STORE_MINUTES), ESend(phone, ItemReply(kind, it, ctx))>>

\* asked == "tabib_after_desc" (1029-1062): bundle is the Tabib bundle item, it
\* the item of ctx["last_item_sku"]
tabib_after_desc(phone, ctx, tx, bundle, it) ==
  IF tx.intent = "link" /\ it # NoItem
  THEN <<EStore(phone, set_checkout_stage(ctx), STORE_MINUTES),
         ESend(phone, [ItemReply("offer_link", it, ctx) EXCEPT !.sku = None])>>
  ELSE IF tx.desc_bundle /\ bundle # NoItem
  THEN <<EStore(phone, set_checkout_stage(ctx), STORE_MINUTES),
         ESend(phone, ItemReply("item_offer", bundle, ctx))>>
  ELSE IF tx.desc_units
  THEN <<EStore(phone, [ctx EXCEPT !.asked = "tabib_pick_unit"], STORE_MINUTES),
         ESend(phone, Reply("tabib_unit_list"))>>
  ELSE <<ESend(phone, Reply("after_desc_clarify"))>>

\* a variant of tabib_menu whose option 3 goes back to pick_product with the
\* question still pending; C27_TabibMainOptions tells it from the code
tabib_menu_back_keeps_asked(phone, ctx, tx, asked, bysku) ==
  IF asked = "tabib_main" /\ tx.main_bundle /\ BundleOf(bysku) # NoItem
  THEN OfferItem(phone, ctx, BundleOf(bysku), "item_offer")
  ELSE IF asked = "tabib_main" /\ tx.main_units
  THEN <<EStore(phone, [ctx EXCEPT !.asked = "tabib_pick_unit"], STORE_MINUTES),
         ESend(phone, Reply("tabib_unit_list"))>>
  ELSE IF asked = "tabib_main" /\ tx.main_back
  THEN <<EStore(phone, [ctx EXCEPT !.stage = "pick_product"], STORE_MINUTES),
         ESend(phone, Reply("which_product_now"))>>
  ELSE IF asked = "tabib_after_desc"
  THEN tabib_after_desc(phone, ctx, tx, BundleOf(bysku),
                        SkuItem(bysku, Get(ctx, "last_item_sku", None)))
  ELSE IF asked = "tabib_pick_unit"
  THEN IF tx.unit_digit /\ tx.unit_item # NoItem
       THEN OfferItem(phone, ctx, tx.unit_item, "item_offer")
       ELSE IF tx.items # <<>> /\ tx.items[1].family = FAM_TABIB
       THEN OfferItem(phone, ctx, tx.items[1], "item_offer")
       ELSE <<ESend(phone, Reply("pick_unit_clarify"))>>
  ELSE IF tx.menu_digit /\ tx.menu_item # NoItem
  THEN OfferItem(phone, ctx, tx.menu_item, "item_offer")
  ELSE <<ESend(phone, Reply("tabib_clarify"))>>

\* stage == "tabib_menu" (998-1116): asked is ctx.get("asked") or "", bysku is
\* CatalogBySKU
tabib_menu(phone, ctx, tx, asked, bysku) ==
  IF asked = "tabib_main" /\ tx.main_bundle /\ BundleOf(bysku) # NoItem
  THEN OfferItem(phone, ctx, BundleOf(bysku), "item_offer")
  ELSE IF asked = "tabib_main" /\ tx.main_units
  THEN <<EStore(phone, [ctx EXCEPT !.asked = "tabib_pick_unit"], STORE_MINUTES),
         ESend(phone, Reply("tabib_unit_list"))>>
  ELSE IF asked = "tabib_main" /\ tx.main_back
  THEN <<EStore(phone, [ctx EXCEPT !.stage = "pick_product", !.asked = NoneSym], STORE_MINUTES),
         ESend(phone, Reply("which_product_now"))>>
  ELSE IF asked = "tabib_after_desc"
  THEN tabib_after_desc(phone, ctx, tx, BundleOf(bysku),
                        SkuItem(bysku, Get(ctx, "last_item_sku", None)))
  ELSE IF asked = "tabib_pick_unit"
  THEN IF tx.unit_digit /\ tx.unit_item # NoItem
       THEN OfferItem(phone, ctx, tx.unit_item, "item_offer")
       ELSE IF tx.items # <<>> /\ tx.items[1].family = FAM_TABIB
       THEN OfferItem(phone, ctx, tx.items[1], "item_offer")
       ELSE <<ESend(phone, Reply("pick_unit_clarify"))>>
  ELSE IF tx.menu_digit /\ tx.menu_item # NoItem
  THEN OfferItem(phone, ctx, tx.menu_item, "item_offer")
  ELSE <<ESend(phone, Reply("tabib_clarify"))>>

\* asked = ctx.get("asked") or ""
AskedOf(ctx) == IF Get(ctx, "asked", NoneSym) = NoneSym THEN "" ELSE ctx.asked

route_tabib_menu(phone, ctx, tx) == tabib_menu(phone, ctx, tx, AskedOf(ctx), CatalogBySKU)

\* stage = ctx.get("stage") or "verify"
StageOf(ctx) == IF Get(ctx, "stage", NoneSym) \in {NoneSym, ""} THEN "verify" ELSE ctx.stage

\*   renew_offer       "A condição anterior expirou. Posso **renovar** a oferta ..."
\*   which_product     "Legal! Qual produto você quer? ..."
\*   goodbye           "Sem problemas, obrigado! Se precisar, é só chamar."
\*   tabib_menu        menu_tabib_text()
\*   item_offer_site   describe_item(it), headline, detail, link, "Site oficial: ..."
\*   product_unknown   "Não entendi o produto. Se for *Tabib*, responda 'tabib' ..."
\* the branches on stage (940-1118)
route_by_stage(phone, ctx, tx, stage) ==
  IF stage = "checkout"
  THEN IF offer_expired(ctx)
       THEN <<ESend(phone, Reply("renew_offer")),
              EStore(phone, [ctx EXCEPT !.asked = "apply_offer"], STORE_MINUTES)>>
       ELSE handle_intent(phone, ctx, tx, tx.intent)
  ELSE IF stage = "verify"
  THEN IF tx.verify_yes
       THEN <<EStore(phone, [ctx EXCEPT !.confirmed_owner = TRUE, !.stage = "pick_product"],
                     STORE_MINUTES),
              ESend(phone, Reply("which_product"))>>
       ELSE IF tx.verify_no
       THEN <<ESend(phone, Reply("goodbye")), EClear(phone)>>
       ELSE handle_intent(phone, ctx, tx, tx.intent)
  ELSE IF stage = "pick_product"
  THEN IF tx.has_tabib
       THEN <<EStore(phone, [ctx EXCEPT !.stage = "tabib_menu"], STORE_MINUTES),
              ESend(phone, Reply("tabib_menu"))>>
       ELSE IF tx.items # <<>>
       THEN <<EStore(phone, set_checkout_stage(ctx), STORE_MINUTES),
              ESend(phone, ItemReply("item_offer_site", tx.items[1], ctx))>>
       ELSE <<ESend(phone, Reply("product_unknown"))>>
  ELSE IF stage = "tabib_menu"
  THEN route_tabib_menu(phone, ctx, tx)
  ELSE handle_intent(phone, ctx, tx, tx.intent)

\*   item_offer_safe   describe_item(it), headline, detail,
\*                     "Para finalizar com segurança, acesse: {link}"
\* the text names a product other than Tabib, it = pick_family_item(pk) (922-937);
\* without an item the two keys stay set in ctx, stored or not by the branch taken
route_family(phone, ctx, tx, stage, it) ==
  IF it # NoItem
  THEN <<ECall("shortcut", tx.pk), EStore(phone, set_checkout_stage(ctx), STORE_MINUTES),
         ESend(phone, ItemReply("item_offer_safe", it, ctx))>>
  ELSE route_by_stage(phone, ctx, tx, stage)

\* a variant of route_stage that leaves out the product shortcut, so that the rule
\* of the stage decides; C3_ShortcutBeforeStage tells it from the code
route_stage_by_stage_only(phone, ctx, tx) ==
  <<ECall("route_stage", StageOf(ctx))>> \o route_by_stage(phone, ctx, tx, StageOf(ctx))

route_stage(phone, ctx, tx) ==
  <<ECall("route_stage", StageOf(ctx))>> \o
  (IF tx.pk = None THEN route_by_stage(phone, ctx, tx, StageOf(ctx))
   ELSE IF tx.pk = FAM_TABIB
   THEN <<ECall("shortcut", tx.pk),
          EStore(phone, TabibMenuCtx(WithProduct(ctx, tx.pk), "tabib_main"), STORE_MINUTES),
          ESend(phone, Reply("tabib_main"))>>
   ELSE route_family(phone, WithProduct(ctx, tx.pk), tx, StageOf(ctx), pick_family_item(tx.pk)))

\* ------------------------------------------------------------------------
\* JSON values of a request body: None, a str, or a dict of such values
\* ------------------------------------------------------------------------
JNone    == <<"none", "">>
JStr(s)  == <<"str", s>>
JDict(d) == <<"dict", d>>
EmptyDict == [k \in {} |-> JNone]

IsStr(v)  == v[1] = "str"
IsDict(v) == v[1] = "dict"

\* bool(v)
Truthy(v) ==
  CASE v[1] = "none" -> FALSE
    [] v[1] = "str"  -> v[2] # <<>>
    [] v[1] = "dict" -> DOMAIN v[2] # {}

\* a or b
Or(a, b) == IF Truthy(a) THEN a ELSE b

\* d.get(k) of a dict value d
JGet(d, k) == IF k \in DOMAIN d[2] THEN d[2][k] ELSE JNone

\* ------------------------------------------------------------------------
\* Z-API normaliser (main.py 631-673)
\* ------------------------------------------------------------------------
\* the first of x.get(k), k in keys[n..], that is a str
RECURSIVE FirstStrOf(_, _, _)
FirstStrOf(x, keys, n) ==
  IF n > Len(keys) THEN JNone
  ELSE IF IsStr(JGet(x, keys[n])) THEN JGet(x, keys[n])
  ELSE FirstStrOf(x, keys, n + 1)

as_text(x) ==
  IF IsStr(x) THEN x
  ELSE IF IsDict(x) THEN FirstStrOf(x, <<"message", "text", "body", "caption">>, 1)
  ELSE JNone

\* if not phone or not text: look for them in m, when m is a dict; pt is
\* <<phone, text>>
Deeper(pt, m) ==
  IF (~ Truthy(pt[1]) \/ ~ Truthy(pt[2])) /\ IsDict(m)
  THEN <<Or(Or(pt[1], JGet(m, "phone")), JGet(m, "from")),
         Or(Or(pt[2], JGet(m, "text")), JGet(m, "body"))>>
  ELSE pt

\* m2 = (data.get("message") or {}) if isinstance(data, dict) else {}
DataMessage(data) ==
  IF IsDict(data) THEN Or(JGet(data, "message"), JDict(EmptyDict)) ELSE JDict(EmptyDict)

\* normalize_phone(phone), text if it is a str; the text is the message as
\* received, text.strip() being taken where the text is read (see TextFacts)
PhoneAndText(phone, text) ==
  <<PhoneOf[IF IsStr(phone) THEN phone[2] ELSE None], IF IsStr(text) THEN text[2] ELSE None>>

PhoneAndTextOf(pt) == PhoneAndText(pt[1], as_text(pt[2]))

\* body is a dict value; the result is <<phone, text>>
extract_phone_and_text(body) ==
  PhoneAndTextOf(
    Deeper(Deeper(<<Or(JGet(body, "phone"), JGet(body, "from")),
                    Or(JGet(body, "text"), JGet(body, "body"))>>,
                  Or(JGet(body, "message"), JDict(EmptyDict))),
           DataMessage(Or(JGet(body, "data"), JDict(EmptyDict)))))

\* _typ(d)
MsgTyp(d) == py_lower(Or(Or(JGet(d, "type"), JGet(d, "messageType")), JStr(<<>>))[2])

\* the two tests on m = body.get("message") or {}
AudioMessage(m) ==
  /\ IsDict(m)
  /\ \/ MsgTyp(m) \in {<<"a","u","d","i","o">>, <<"v","o","i","c","e">>, <<"p","t","t">>, <<"c","a","l","l">>}
     \/ \E k \in {"audio", "voice", "ptt"} : k \in DOMAIN m[2]

\* a variant of is_audio_or_call that looks at the type of the body only, not
\* at the nested message; C19_AudioNotRouted tells it from the code
is_audio_or_call_top_only(body) ==
  MsgTyp(body) \in {<<"a","u","d","i","o">>, <<"v","o","i","c","e">>, <<"p","t","t">>, <<"c","a","l","l">>, <<"c","a","l","l","_","l","o","g">>}

is_audio_or_call(body) ==
  \/ MsgTyp(body) \in {<<"a","u","d","i","o">>, <<"v","o","i","c","e">>, <<"p","t","t">>, <<"c","a","l","l">>, <<"c","a","l","l","_","l","o","g">>}
  \/ AudioMessage(Or(JGet(body, "message"), JDict(EmptyDict)))

\* ------------------------------------------------------------------------
\* Checkout events (main.py 676-722)
\* ------------------------------------------------------------------------
\* what a handler did: the HTTP status, the reason/note of the body, its effects
Response(status, note, effects) == [status |-> status, note |-> note, effects |-> effects]

\* (x or "").strip() of a str or None
StripOrEmpty(x) == IF x = None THEN <<>> ELSE py_strip(x)

\* flow, of the event lower-cased and stripped
FlowOf(event) ==
  IF event = <<"c","h","e","c","k","o","u","t","_","a","b","a","n","d","o","n","e","d">> THEN "abandoned"
  ELSE IF event = <<"p","i","x","_","p","e","n","d","i","n","g">> THEN "pix_pending"
  ELSE "unknown"

\* a variant of EventCtx that opens the context with the owner confirmed, as the
\* context of a first message is; C8_EventOpensContext tells it from the code
EventCtx_confirmed(flow, name, product_name, fam_guess, checkout_url) ==
  [flow |-> flow, name |-> name, product_name |-> product_name,
   product_key |-> fam_guess, selected_product |-> fam_guess,
   checkout_url |-> checkout_url, created_at |-> isoformat(now),
   stage |-> "verify", confirmed_owner |-> TRUE, asked |-> NoneSym,
   last_intent |-> NoneSym, offer_expires_at |-> None, reminded |-> FALSE]

\* a variant of EventCtx that opens the context in stage pick_product with the
\* owner still unconfirmed; C33_StageImpliesConfirmed tells it from the code
EventCtx_past_verify(flow, name, product_name, fam_guess, checkout_url) ==
  [flow |-> flow, name |-> name, product_name |-> product_name,
   product_key |-> fam_guess, selected_product |-> fam_guess,
   checkout_url |-> checkout_url, created_at |-> isoformat(now),
   stage |-> "pick_product", confirmed_owner |-> FALSE, asked |-> NoneSym,
   last_intent |-> NoneSym, offer_expires_at |-> None, reminded |-> FALSE]

\* the context a checkout event opens (700-714)
EventCtx(flow, name, product_name, fam_guess, checkout_url) ==
  [flow |-> flow, name |-> name, product_name |-> product_name,
   product_key |-> fam_guess, selected_product |-> fam_guess,
   checkout_url |-> checkout_url, created_at |-> isoformat(now),
   stage |-> "verify", confirmed_owner |-> FALSE, asked |-> NoneSym,
   last_intent |-> NoneSym, offer_expires_at |-> None, reminded |-> FALSE]

\*   owner_question   "Bom dia! Esse número é de {name}? ... Responda 1) Sim  2) Não"
\* the handler after the secret check, on the fields of the payload
cartpanda_event(phone, flow, name, product_name, checkout_url) ==
  IF phone = None \/ product_name = <<>>
  THEN Response(200, "missing phone or product", <<>>)
  ELSE Response(200, flow,
         <<EStore(phone,
                  EventCtx(flow, name, product_name,
                           _infer_family([family |-> <<>>, name |-> product_name]), checkout_url),
                  180),
           ESend(phone, Reply("owner_question"))>>)

\* a variant of cartpanda_webhook that handles the event whatever the secret
\* header; C17_BadSecretRejected tells it from the code
cartpanda_webhook_any_secret(req) ==
  cartpanda_event(PhoneOf[req.phone], FlowOf(py_lower(StripOrEmpty(req.event))),
                  StripOrEmpty(req.name), StripOrEmpty(req.product),
                  StripOrEmpty(req.checkout_url))

\* req: secret (the X-Cartpanda-Secret header or None), event, phone, name,
\* product, checkout_url (the fields of the payload, None when missing)
cartpanda_webhook(req) ==
  IF config.cartpanda_secret # "" /\ req.secret # config.cartpanda_secret
  THEN Response(401, "invalid secret", <<>>)
  ELSE cartpanda_event(PhoneOf[req.phone], FlowOf(py_lower(StripOrEmpty(req.event))),
                       StripOrEmpty(req.name), StripOrEmpty(req.product),
                       StripOrEmpty(req.checkout_url))

\* ------------------------------------------------------------------------
\* Inbound messages (main.py 1121-1201)
\* ------------------------------------------------------------------------
\* the context of a phone the bot has no context for (1170-1184)
FreshCtx ==
  [flow |-> "unknown", name |-> <<>>, product_name |-> <<>>, product_key |-> <<>>,
   selected_product |-> <<>>, checkout_url |-> <<>>, created_at |-> isoformat(now),
   stage |-> "verify", confirmed_owner |-> TRUE, asked |-> NoneSym,
   last_intent |-> NoneSym, offer_expires_at |-> None, reminded |-> FALSE]

\* the content types whose body the handler reads; ctype is lower-cased
Readable(ctype) ==
  \/ Contains(ctype, <<"a","p","p","l","i","c","a","t","i","o","n","/","j","s","o","n">>)
  \/ Contains(ctype, <<"a","p","p","l","i","c","a","t","i","o","n","/","x","-","w","w","w","-","f","o","r","m","-","u","r","l","e","n","c","o","d","e","d">>)
  \/ Contains(ctype, <<"m","u","l","t","i","p","a","r","t","/","f","o","r","m","-","d","a","t","a">>)

\* a variant of zapi_message that confirms the owner and leaves the stage as it
\* is; C5_YesInVerify tells it from the code
zapi_message_confirm_only(phone, tx, ctx) ==
  IF ctx = NoCtx
  THEN <<ESend(phone, Reply("intro")), EStore(phone, FreshCtx, STORE_MINUTES)>>
  ELSE IF ~ ctx.confirmed_owner
  THEN IF tx.owner_yes
       THEN <<EStore(phone, [ctx EXCEPT !.confirmed_owner = TRUE], STORE_MINUTES),
              ESend(phone, Reply("which_product_owner"))>>
       ELSE <<ESend(phone, Reply("can_i_help"))>>
  ELSE <<EStore(phone, [ctx EXCEPT !.last_intent = tx.intent], STORE_MINUTES)>>
       \o route_stage(phone, [ctx EXCEPT !.last_intent = tx.intent], tx)

\* a variant of zapi_message that, for a phone without a context, goes on to
\* handle a stop word after the greeting; C32_NoContextOnlyGreets tells it from
\* the code
zapi_message_routes_new(phone, tx, ctx) ==
  IF ctx = NoCtx
  THEN <<ESend(phone, Reply("intro")), EStore(phone, FreshCtx, STORE_MINUTES)>>
       \o (IF tx.intent = "stop" THEN <<EClear(phone), ESend(phone, Reply("farewell"))>> ELSE <<>>)
  ELSE IF ~ ctx.confirmed_owner
  THEN IF tx.owner_yes
       THEN <<EStore(phone, [ctx EXCEPT !.confirmed_owner = TRUE, !.stage = "pick_product"],
                     STORE_MINUTES),
              ESend(phone, Reply("which_product_owner"))>>
       ELSE <<ESend(phone, Reply("can_i_help"))>>
  ELSE <<EStore(phone, [ctx EXCEPT !.last_intent = tx.intent], STORE_MINUTES)>>
       \o route_stage(phone, [ctx EXCEPT !.last_intent = tx.intent], tx)

\*   which_product_owner   "Ótimo! Qual produto você quer? Se for *Tabib*, ..."
\*   can_i_help            "Sou ... Posso te ajudar a finalizar o pedido?"
\* the handler from ctx = read_ctx(phone) on (1166-1201); tx is the facts of text
zapi_message(phone, tx, ctx) ==
  IF ctx = NoCtx
  THEN <<ESend(phone, Reply("intro")), EStore(phone, FreshCtx, STORE_MINUTES)>>
  ELSE IF ~ ctx.confirmed_owner
  THEN IF tx.owner_yes
       THEN <<EStore(phone, [ctx EXCEPT !.confirmed_owner = TRUE, !.stage = "pick_product"],
                     STORE_MINUTES),
              ESend(phone, Reply("which_product_owner"))>>
       ELSE <<ESend(phone, Reply("can_i_help"))>>
  ELSE <<EStore(phone, [ctx EXCEPT !.last_intent = tx.intent], STORE_MINUTES)>>
       \o route_stage(phone, [ctx EXCEPT !.last_intent = tx.intent], tx)

\*   no_audio   "No momento não conseguimos ouvir áudio e nem atender ligações. ..."
\* the handler from phone, text = extract_phone_and_text(body) on (1154-1164);
\* pt is <<phone, text>>
zapi_inbound(body, pt, st) ==
  IF is_audio_or_call(body)
  THEN Response(200, "", IF pt[1] # None THEN <<ESend(pt[1], Reply("no_audio"))>> ELSE <<>>)
  ELSE IF pt[1] = None \/ pt[2] = None
  THEN Response(200, "missing phone/text", <<>>)
  ELSE IF py_strip(pt[2]) = <<>>
  THEN Response(200, "missing phone/text", <<>>)
  ELSE Response(200, "", <<ERead(pt[1])>>
                         \o zapi_message(pt[1], Tx[pt[2]], read_ctx(st, pt[1]).ret))

\* req: secret (the X-Zapi-Secret header or None), ctype (the content type),
\* parsed (whether the body was parsed), body (the parsed body, a dict value);
\* st is the store the handler finds
zapi_webhook(req, st) ==
  IF config.zapi_secret # "" /\ req.secret # config.zapi_secret
  THEN Response(200, "invalid secret (ignored in test)", <<>>)
  ELSE IF ~ Readable(py_lower(req.ctype)) \/ ~ req.parsed
  THEN Response(200, "", <<>>)
  ELSE zapi_inbound(req.body, extract_phone_and_text(req.body), st)

\* ------------------------------------------------------------------------
\* Requests
\* ------------------------------------------------------------------------
\* the secret header of a request, None when the header is missing
HeaderSecrets == {NoneSym, "s3cret", "wrong"}

\* a checkout event: the X-Cartpanda-Secret header and the fields of the payload
CReq(secret, event, phone, name, product, checkout_url) ==
  [secret |-> secret, event |-> event, phone |-> phone, name |-> name,
   product |-> product, checkout_url |-> checkout_url]

CartpandaRequests ==
  {CReq("s3cret", e[1], S("11988887777"), S("Ana"), e[2], S("https://pay.example/c/1")) : e \in
     { <<S("checkout_abandoned"), S("Tabib Volume 2")>>, <<S(" Checkout_Abandoned "), S("Tabib Volume 2")>>,
       <<S("pix_pending"), S("Airfryer do Chef")>>, <<S("order_paid"), S("Tabib Volume 2")>>,
       <<S("checkout_abandoned"), S("  ")>>, <<S("pix_pending"), None>>, <<None, S("Tabib Volume 2")>> }}
  \cup {CReq("s3cret", S("checkout_abandoned"), p, S("Ana"), S("Tabib Volume 2"), S("https://pay.example/c/1"))
           : p \in RawPhones \cup {None}}
  \cup {CReq("s3cret", S("checkout_abandoned"), S("123"), None, S("Tabib Volume 2"), None)}
  \cup {CReq(h, S("pix_pending"), S("11988887777"), S("Ana"), S("Airfryer do Chef"), S("https://pay.example/c/1"))
           : h \in HeaderSecrets}

ZReq(secret, ctype, parsed, body) ==
  [secret |-> secret, ctype |-> ctype, parsed |-> parsed, body |-> JDict(body)]

\* {<<"p","h","o","n","e">>: p, <<"t","e","x","t">>: m}
FlatBody(p, m) == [phone |-> JStr(p), text |-> JStr(m)]

\* bodies of voice notes and calls: told by type or messageType, by the type of
\* the nested message, or by an audio field in it; with and without a text
AudioBodies ==
  { [phone |-> JStr(S("11988887777")), type |-> JStr(S("audio"))],
    [phone |-> JStr(S("11988887777")), text |-> JStr(S("sim")), type |-> JStr(S("Voice"))],
    [text |-> JStr(S("oi")), messageType |-> JStr(S("call_log"))],
    [phone |-> JStr(S("11988887777")), text |-> JStr(S("oi")),
     message |-> JDict([type |-> JStr(S("PTT"))])],
    [phone |-> JStr(S("11988887777")), text |-> JStr(S("oi")),
     message |-> JDict([voice |-> JStr(S(""))])] }

ZapiRequests ==
  {ZReq("s3cret", S("application/json"), TRUE, FlatBody(S("11988887777"), m)) : m \in Messages}
  \cup {ZReq(h, S("application/json"), TRUE, FlatBody(S("11988887777"), S("oi"))) : h \in HeaderSecrets}
  \cup {ZReq("s3cret", S("application/json"), TRUE, FlatBody(p, S("oi"))) : p \in RawPhones}
  \cup {ZReq("s3cret", c, TRUE, FlatBody(S("11988887777"), S("sim")))
          : c \in {S("application/x-www-form-urlencoded"), S("text/plain"),
                   S("Application/JSON; charset=utf-8")}}
  \cup {ZReq("s3cret", S("application/json"), FALSE, EmptyDict)}
  \cup {ZReq("s3cret", S("application/json"), TRUE, b) : b \in
          { [message |-> JDict([from |-> JStr(S("11988887777")), body |-> JStr(S("sim"))])],
            [data |-> JDict([message |-> JDict([phone |-> JStr(S("11988887777")),
                                                 text |-> JStr(S("tabib"))])])],
            [phone |-> JStr(S("11988887777")), text |-> JDict([message |-> JStr(S("pare"))])],
            [phone |-> JStr(S("11988887777")), text |-> JDict([caption |-> JDict(EmptyDict)])],
            [from |-> JStr(S("11988887777"))],
            [phone |-> JStr(S("11988887777")), text |-> JStr(S("oi")), type |-> JStr(S("text"))] }}
  \cup {ZReq("s3cret", S("application/json"), TRUE, b) : b \in AudioBodies}

\* ------------------------------------------------------------------------
\* Applying the effects of a handler to the state
\* ------------------------------------------------------------------------
Store == [rds |-> config.redis, up |-> redis_up, db |-> redis_db, mem |-> _MEM, ret |-> NoCtx]

\* what read_ctx(phone) would return now
Peek(phone) == IF phone = None THEN NoCtx ELSE read_ctx(Store, phone).ret

\* what the POST to the gateway does during a request: it answers with a status
\* code, or the call raises (no connection, timeout)
PostOK == [raises |-> FALSE, status |-> 200]

Posts == {PostOK, [raises |-> FALSE, status |-> 500], [raises |-> TRUE, status |-> 0]}

\* what a call of zapi_send_text comes to: the dict it returns, or raised
SendResult(ok, error, status) == [raised |-> FALSE, ok |-> ok, error |-> error, status |-> status]

\* a variant of zapi_send_text that lets the exception of the POST through;
\* C23_SendFailureIgnored tells it from the code
zapi_send_text_raises(configured, post) ==
  IF ~ configured THEN SendResult(FALSE, "zapi_not_configured", 0)
  ELSE IF post.raises THEN [SendResult(FALSE, "exception", 0) EXCEPT !.raised = TRUE]
  ELSE IF post.status >= 400 THEN SendResult(FALSE, "", post.status)
  ELSE SendResult(TRUE, "", post.status)

\* zapi_send_text (529-551); configured is ZAPI_MSG_URL and CLIENT_TOKEN
zapi_send_text(configured, post) ==
  IF ~ configured THEN SendResult(FALSE, "zapi_not_configured", 0)
  ELSE IF post.raises THEN SendResult(FALSE, "exception", 0)
  ELSE IF post.status >= 400 THEN SendResult(FALSE, "", post.status)
  ELSE SendResult(TRUE, "", post.status)

\* await zapi_send_text(phone, msg) in a handler: the value is dropped, an
\* exception ends the handler
Sent(acc, phone, msg, r) ==
  [acc EXCEPT !.out = Append(acc.out, [phone |-> phone, msg |-> msg]),
              !.sends = Append(acc.sends, r),
              !.raised = r.raised]

RECURSIVE Apply(_, _)
Apply(effects, acc) ==
  IF effects = <<>> \/ acc.raised THEN acc
  ELSE LET e == Head(effects)
       IN  Apply(Tail(effects),
             CASE e[1] = "store" -> [acc EXCEPT !.st = store_ctx(acc.st, e[2], e[3], e[4])]
               [] e[1] = "read"  -> [acc EXCEPT !.st = read_ctx(acc.st, e[2])]
               [] e[1] = "clear" -> [acc EXCEPT !.st = clear_ctx(acc.st, e[2])]
               [] e[1] = "send"  -> Sent(acc, e[2], e[3], zapi_send_text(acc.configured, acc.post))
               [] e[1] = "call"  -> [acc EXCEPT !.calls = Append(acc.calls, <<e[2], e[3]>>)])

\* the state a handler leaves, and what it answered; an exception that leaves
\* the handler is answered with status 500
OutcomeOf(resp, r) ==
  [status |-> IF r.raised THEN 500 ELSE resp.status, note |-> resp.note,
   db |-> r.st.db, mem |-> r.st.mem, out |-> r.out, calls |-> r.calls, sends |-> r.sends]

\* the handler's effects with the gateway configured or not and the POST doing post
OutcomeVia(resp, configured, post) ==
  OutcomeOf(resp, Apply(resp.effects, [st |-> Store, out |-> <<>>, calls |-> <<>>, sends |-> <<>>,
                                       raised |-> FALSE, configured |-> configured, post |-> post]))

\* with every send delivered
Outcome(resp) == OutcomeVia(resp, TRUE, PostOK)

CartpandaOutcome(req) == Outcome(cartpanda_webhook(req))
ZapiOutcome(req)      == Outcome(zapi_webhook(req, Store))

\* what read_ctx(phone) would return in the state of outcome o
PeekAfter(o, phone) ==
  IF phone = None THEN NoCtx
  ELSE read_ctx([Store EXCEPT !.db = o.db, !.mem = o.mem], phone).ret

\* what a request finds stored for its phone: nothing, or the stage of the
\* context, whether the owner is confirmed and whether the offer has expired
NotFound == <<"none", FALSE, FALSE>>

Found(ctx) ==
  IF ctx = NoCtx THEN NotFound ELSE <<StageOf(ctx), ctx.confirmed_owner, offer_expired(ctx)>>

\* no request has been handled since the clock last moved
Idle == [kind |-> "idle", phone |-> None, text |-> None, before |-> NotFound,
         asked |-> "", status |-> 0, note |-> "", sends |-> <<>>]

Handled(kind, phone, text, o) ==
  /\ handled' = handled + 1
  /\ redis_db' = o.db
  /\ _MEM' = o.mem
  /\ outbox' = o.out
  /\ calls' = o.calls
  /\ inbound' = [kind |-> kind, phone |-> phone, text |-> text, before |-> Found(Peek(phone)),
                 asked |-> AskedOf(Peek(phone)),
                 status |-> o.status, note |-> o.note, sends |-> o.sends]
  /\ UNCHANGED <<tasks, now, config, redis_up, op, hist>>

\* POST /webhook/cartpanda
CartpandaStep(req, post) ==
  Handled("cartpanda", PhoneOf[req.phone], None,
          OutcomeVia(cartpanda_webhook(req), config.zapi_configured, post))

CartpandaWebhook ==
  handled < MaxRequests /\ \E req \in CartpandaRequests : CartpandaStep(req, PostOK)

\* POST /webhook/zapi
ZapiHandled(req, pt, post) ==
  Handled("zapi", pt[1], pt[2], OutcomeVia(zapi_webhook(req, Store), config.zapi_configured, post))

ZapiStep(req, post) == ZapiHandled(req, extract_phone_and_text(req.body), post)

ZapiWebhook ==
  handled < MaxRequests /\ \E req \in ZapiRequests : ZapiStep(req, PostOK)

\* the phones store_ctx, read_ctx and clear_ctx are called with on their own
Phones == {<<"5","5","1","1","9","8","8","8","8","7","7","7","7">>, <<"5","5","2","1","9","7","7","7","7","6","6","6","6">>}

\* no call made on its own since the clock last moved
NoOp == [name |-> "none", phone |-> None, ret |-> NoCtx, twin |-> NoCtx]

\* nothing stored or cleared for a phone yet
Untouched == [state |-> "none", ctx |-> NoCtx, at |-> 0]

\* the handlers that can run at the same time
Handlers == {1, 2}

\* a handler that handles no message
Free == [state |-> "free", text |-> None, read |-> NoCtx, rest |-> <<>>, alone |-> NoCtx]

NoTasks == [of |-> [h \in Handlers |-> Free], last |-> 0]

\* time passes; the Redis server drops the keys whose time to live is over
TimeStep == 100

Tick ==
  /\ now + TimeStep <= MaxTime
  /\ now' = now + TimeStep
  /\ redis_db' = [k \in {x \in DOMAIN redis_db : ~ (now' > redis_db[x].exp)} |-> redis_db[k]]
  /\ inbound' = Idle
  /\ outbox' = <<>>
  /\ calls' = <<>>
  /\ op' = NoOp
  /\ UNCHANGED <<tasks, config, redis_up, _MEM, handled, hist>>

\* the environments the process is started in
Configs ==
  { [redis |-> FALSE, cartpanda_secret |-> "",       zapi_secret |-> "",       zapi_configured |-> TRUE],
    [redis |-> TRUE,  cartpanda_secret |-> "s3cret", zapi_secret |-> "s3cret", zapi_configured |-> TRUE] }

Init ==
  /\ now = 0
  /\ config \in Configs
  /\ redis_up = TRUE
  /\ redis_db = <<>>
  /\ _MEM = <<>>
  /\ inbound = Idle
  /\ outbox = <<>>
  /\ calls = <<>>
  /\ handled = 0
  /\ op = NoOp
  /\ hist = [p \in Phones |-> Untouched]
  /\ tasks = NoTasks

Next == CartpandaWebhook \/ ZapiWebhook \/ Tick

Spec == Init /\ [][Next]_vars

\* ------------------------------------------------------------------------
\* The handlers with a gateway that fails
\* ------------------------------------------------------------------------
\* the process started with and without ZAPI_MSG_URL and CLIENT_TOKEN
SendConfigs ==
  { [redis |-> TRUE,  cartpanda_secret |-> "s3cret", zapi_secret |-> "s3cret", zapi_configured |-> TRUE],
    [redis |-> FALSE, cartpanda_secret |-> "",       zapi_secret |-> "",       zapi_configured |-> FALSE] }

\* messages that take a conversation through every stage
SendMessages == {S("oi"), S("sim"), S("tabib"), S("todos"), S("unitarios"), S("tem desconto"), S("pare")}

CartpandaWebhookPosts ==
  handled < MaxRequests /\ \E post \in Posts :
    CartpandaStep(CReq("s3cret", S("checkout_abandoned"), S("11988887777"), S("Ana"),
                       S("Tabib Volume 2"), S("https://pay.example/c/1")), post)

ZapiWebhookPosts ==
  handled < MaxRequests /\ \E m \in SendMessages, post \in Posts :
    ZapiStep(ZReq("s3cret", S("application/json"), TRUE, FlatBody(S("11988887777"), m)), post)

InitSend ==
  /\ now = 0
  /\ config \in SendConfigs
  /\ redis_up = TRUE
  /\ redis_db = <<>>
  /\ _MEM = <<>>
  /\ inbound = Idle
  /\ outbox = <<>>
  /\ calls = <<>>
  /\ handled = 0
  /\ op = NoOp
  /\ hist = [p \in Phones |-> Untouched]
  /\ tasks = NoTasks

NextSend == CartpandaWebhookPosts \/ ZapiWebhookPosts \/ Tick

SpecSend == InitSend /\ [][NextSend]_vars

\* ------------------------------------------------------------------------
\* Conversations in the Tabib menu
\* ------------------------------------------------------------------------
\* a conversation needs three messages to reach the list of the volumes and a
\* fourth to answer it
MaxMenuRequests == 4

MenuMessages ==
  {S("oi"), S("tabib"), S("2"), S("unitarios"), S("dores"), S("v2"), S("volume 2"), S("1"), S("4"),
   S("5"), S("xyz"), S("todos"), S("sim")}

ZapiWebhookMenu ==
  handled < MaxMenuRequests /\ \E m \in MenuMessages :
    ZapiStep(ZReq("s3cret", S("application/json"), TRUE, FlatBody(S("11988887777"), m)), PostOK)

NextMenu == ZapiWebhookMenu \/ Tick

SpecMenu == Init /\ [][NextMenu]_vars

\* ------------------------------------------------------------------------
\* The context store on its own, with outages of the Redis server
\* ------------------------------------------------------------------------
\* the contexts the handlers store: the one of a checkout event and the one of a
\* first message
StoredCtxs ==
  {FreshCtx, EventCtx("abandoned", <<"A","n","a">>, <<"T","a","b","i","b"," ","V","o","l","u","m","e"," ","2">>, FAM_TABIB, <<"h","t","t","p","s",":","/","/","p","a","y",".","e","x","a","m","p","l","e","/","c","/","1">>)}

Called(name, phone, ret, twin) == [name |-> name, phone |-> phone, ret |-> ret, twin |-> twin]

\* the store after one of the three functions, left by a call made on its own
StoreLeft(st) ==
  /\ redis_db' = st.db
  /\ _MEM' = st.mem
  /\ UNCHANGED <<tasks, now, config, redis_up, inbound, outbox, calls, handled>>

\* store_ctx(phone, ctx)
StoreOp(phone, ctx) ==
  /\ StoreLeft(store_ctx(Store, phone, ctx, STORE_MINUTES))
  /\ op' = Called("store", phone, NoCtx, NoCtx)
  /\ hist' = [hist EXCEPT ![phone] = [state |-> "stored", ctx |-> ctx, at |-> now]]

\* read_ctx(phone)
ReadOp(phone) ==
  /\ StoreLeft(read_ctx(Store, phone))
  /\ op' = Called("read", phone, read_ctx(Store, phone).ret, NoCtx)
  /\ UNCHANGED hist

\* clear_ctx(phone)
ClearOp(phone) ==
  /\ StoreLeft(clear_ctx(Store, phone))
  /\ op' = Called("clear", phone, NoCtx, NoCtx)
  /\ hist' = [hist EXCEPT ![phone] = [state |-> "cleared", ctx |-> NoCtx, at |-> now]]

StoreCtx == \E phone \in Phones, ctx \in StoredCtxs : StoreOp(phone, ctx)
ReadCtx  == \E phone \in Phones : ReadOp(phone)
ClearCtx == \E phone \in Phones : ClearOp(phone)

\* the Redis server stops answering: every call on rds raises
RedisDown ==
  /\ config.redis /\ redis_up
  /\ redis_up' = FALSE
  /\ op' = NoOp
  /\ UNCHANGED <<tasks, now, config, redis_db, _MEM, inbound, outbox, calls, handled, hist>>

\* the Redis server answers again, with the keys it held
RedisUp ==
  /\ config.redis /\ ~ redis_up
  /\ redis_up' = TRUE
  /\ op' = NoOp
  /\ UNCHANGED <<tasks, now, config, redis_db, _MEM, inbound, outbox, calls, handled, hist>>

NextStore == StoreCtx \/ ReadCtx \/ ClearCtx \/ RedisDown \/ RedisUp \/ Tick

SpecStore == Init /\ [][NextStore]_vars

\* ------------------------------------------------------------------------
\* Two deployments in step: one whose Redis server always answers, keeping its
\* keys in redis_db, and one that always takes the memory path, keeping _MEM
\* ------------------------------------------------------------------------
Primary  == [rds |-> TRUE, up |-> TRUE,  db |-> redis_db, mem |-> <<>>, ret |-> NoCtx]
Fallback == [rds |-> TRUE, up |-> FALSE, db |-> <<>>,     mem |-> _MEM, ret |-> NoCtx]

\* what the same call leaves in each deployment
TwinLeft(a, b) ==
  /\ redis_db' = a.db
  /\ _MEM' = b.mem
  /\ UNCHANGED <<tasks, now, config, redis_up, inbound, outbox, calls, handled>>

TwinStoreOp(phone, ctx) ==
  /\ TwinLeft(store_ctx(Primary, phone, ctx, STORE_MINUTES),
              store_ctx(Fallback, phone, ctx, STORE_MINUTES))
  /\ op' = Called("store", phone, NoCtx, NoCtx)
  /\ hist' = [hist EXCEPT ![phone] = [state |-> "stored", ctx |-> ctx, at |-> now]]

TwinReadOp(phone) ==
  /\ TwinLeft(read_ctx(Primary, phone), read_ctx(Fallback, phone))
  /\ op' = Called("read", phone, read_ctx(Primary, phone).ret, read_ctx(Fallback, phone).ret)
  /\ UNCHANGED hist

TwinClearOp(phone) ==
  /\ TwinLeft(clear_ctx(Primary, phone), clear_ctx(Fallback, phone))
  /\ op' = Called("clear", phone, NoCtx, NoCtx)
  /\ hist' = [hist EXCEPT ![phone] = [state |-> "cleared", ctx |-> NoCtx, at |-> now]]

TwinStore == \E phone \in Phones, ctx \in StoredCtxs : TwinStoreOp(phone, ctx)
TwinRead  == \E phone \in Phones : TwinReadOp(phone)
TwinClear == \E phone \in Phones : TwinClearOp(phone)

NextTwin == TwinStore \/ TwinRead \/ TwinClear \/ Tick

SpecTwin == Init /\ [][NextTwin]_vars

\* ------------------------------------------------------------------------
\* The helper functions called on their own
\* ------------------------------------------------------------------------
\* normalize_phone(raw) for every raw phone of PhoneInputs
Normalized == [raw \in PhoneInputs |-> normalize_phone(raw)]

\* normalize_phone applied to what it returned, None when it returned None
NormalizedAgain ==
  [raw \in PhoneInputs |-> IF Normalized[raw] = None THEN None ELSE normalize_phone(Normalized[raw])]

CallLeft == UNCHANGED <<tasks, now, config, redis_up, redis_db, _MEM, inbound, outbox, calls, handled, hist>>

\* no item of the built-in catalog declares more aliases
MaxAliases == 12

\* r = normalize_phone(raw), then normalize_phone(r)
NormalizePhoneOp(raw) ==
  /\ op' = Called("normalize_phone", raw, Normalized[raw], NormalizedAgain[raw])
  /\ CallLeft

NormalizePhone == \E raw \in PhoneInputs : NormalizePhoneOp(raw)

\* detect_intent(text) for every text of IntentTexts
IntentOf == [text \in IntentTexts |-> detect_intent(text)]

DetectIntentOp(text) ==
  /\ op' = Called("detect_intent", text, IntentOf[text], NoCtx)
  /\ CallLeft

DetectIntent == \E text \in IntentTexts : DetectIntentOp(text)

\* the instants of the model's clock, and the instants an offer made at one of
\* them ends
Instants == {k * TimeStep : k \in 0..(MaxTime \div TimeStep)}

OfferEnds == Instants \cup {t + OFFER_TTL_MIN : t \in Instants}

\* the contexts offer_expired is called with on its own: a stored context
\* without the key offer_expires_at, with None under it, and with the stamp of
\* each instant of OfferEnds
OfferCtxs ==
  {DictPop(c, "offer_expires_at") : c \in StoredCtxs}
    \cup {[c EXCEPT !.offer_expires_at = None] : c \in StoredCtxs}
    \cup {[c EXCEPT !.offer_expires_at = isoformat(t)] : c \in StoredCtxs, t \in OfferEnds}

OfferExpiredOp(ctx) ==
  /\ op' = Called("offer_expired", ctx, offer_expired(ctx), NoCtx)
  /\ CallLeft

OfferExpired == \E ctx \in OfferCtxs : OfferExpiredOp(ctx)

\* the declared aliases: the a-th alias of the n-th item of the catalog
DeclaredAliases ==
  {p \in (1..Len(Catalog)) \X (1..MaxAliases) : p[2] <= Len(Catalog[p[1]].aliases)}

\* the skus of find_by_text(text), in order
SkusFound(text) == [k \in 1..Len(find_by_text(text)) |-> find_by_text(text)[k].sku]

\* find_by_text of every declared alias
Located == [p \in DeclaredAliases |-> SkusFound(Catalog[p[1]].aliases[p[2]])]

\* find_by_text(alias) for the alias p[2] of the item p[1]
FindByTextOp(p) ==
  /\ op' = Called("find_by_text", Catalog[p[1]].aliases[p[2]], Located[p], Catalog[p[1]].sku)
  /\ CallLeft

FindByText == \E p \in DeclaredAliases : FindByTextOp(p)

NextCalls == NormalizePhone \/ DetectIntent \/ OfferExpired \/ FindByText \/ Tick

SpecCalls == Init /\ [][NextCalls]_vars

\* ------------------------------------------------------------------------
\* Properties
\* ------------------------------------------------------------------------
\* the phone of the conversation, as normalize_phone returns it
ThePhone == <<"5","5","1","1","9","8","8","8","8","7","7","7","7">>

\* the inbound message m of that phone, as Z-API posts it
Inbound(m) == ZReq("s3cret", S("application/json"), TRUE, FlatBody(S("11988887777"), m))

\* the context read_ctx would return for the phone now, and after a request
Ctx == Peek(ThePhone)

After(o) == PeekAfter(o, ThePhone)

\* the templates of the messages sent, in order
Kinds(out) == [n \in 1..Len(out) |-> out[n].msg.kind]

\* fn was entered while the request was handled
Entered(cs, fn) == \E n \in 1..Len(cs) : cs[n][1] = fn

\* offer_expires_at is set and in the past
Lapsed(ctx) == ctx.offer_expires_at # None /\ now > ctx.offer_expires_at[2]

\* the messages that name no product: neither Tabib nor a family
PlainMessages == {m \in Messages : Tx[m].pk = None /\ py_strip(m) # <<>>}

\* C1: with confirmed_owner true and stage pick_product, "quero o volume 3"
\* selects the Tabib Volume 3 item: the stored context ends with stage checkout
\* and offer_expires_at = now + OFFER_TTL_MIN, and the reply carries the
\* checkout link of that item.
C1_VolumeThreeToCheckout ==
  (Ctx # NoCtx /\ Ctx.confirmed_owner /\ StageOf(Ctx) = "pick_product") =>
    LET o == ZapiOutcome(Inbound(S("quero o volume 3")))
    IN  /\ After(o) # NoCtx
        /\ After(o).stage = "checkout"
        /\ After(o).offer_expires_at = isoformat(now + OFFER_TTL_MIN)
        /\ \E n \in 1..Len(o.out) :
             /\ o.out[n].msg.sku = SKU_TABIB_V3
             /\ o.out[n].msg.link = SkuItem(CatalogBySKU, SKU_TABIB_V3).checkout

\* "quero o volume 3" was handled in stage pick_product and opened the Tabib menu
C1_Diverges ==
  /\ inbound.kind = "zapi" /\ inbound.text = S("quero o volume 3")
  /\ inbound.before = <<"pick_product", TRUE, FALSE>>
  /\ Kinds(outbox) = <<"tabib_main">>
  /\ Ctx.stage = "tabib_menu" /\ Ctx.asked = "tabib_main" /\ Ctx.offer_expires_at = None

\* C2: whatever the stage, the asked tag, confirmed_owner and the age of the
\* offer of an existing context, "pare" deletes the context and sends the
\* farewell, and the next message of the phone finds no context and is handled
\* as a first message.
C2_PareDeletesContext ==
  Ctx # NoCtx =>
    LET o == ZapiOutcome(Inbound(S("pare")))
    IN  /\ After(o) = NoCtx
        /\ \E n \in 1..Len(o.out) : o.out[n].msg.kind = "farewell"
        /\ zapi_webhook(Inbound(S("oi")), [Store EXCEPT !.db = o.db, !.mem = o.mem]).effects
             = <<ERead(ThePhone), ESend(ThePhone, Reply("intro")),
                 EStore(ThePhone, FreshCtx, STORE_MINUTES)>>

\* "pare" was handled in stage pick_product: no farewell, the context is kept
C2_Diverges ==
  /\ inbound.kind = "zapi" /\ inbound.text = S("pare")
  /\ inbound.before = <<"pick_product", TRUE, FALSE>>
  /\ Kinds(outbox) = <<"product_unknown">>
  /\ Ctx # NoCtx

\* C3: with confirmed_owner true, in every stage, a message naming a product is
\* handled by the product shortcut and not by the rule of the stage: a Tabib
\* keyword ends with stage tabib_menu and asked tabib_main, the keyword of a
\* family that has a catalog item ends with stage checkout and offer_expires_at
\* stamped anew; neither the expired-offer prompt nor the intent handler runs.
C3_ShortcutBeforeStage ==
  (Ctx # NoCtx /\ Ctx.confirmed_owner) =>
    /\ \A m \in {S("tabib"), S("quero o volume 3")} :
         LET o == ZapiOutcome(Inbound(m))
         IN  /\ After(o).stage = "tabib_menu" /\ After(o).asked = "tabib_main"
             /\ Kinds(o.out) = <<"tabib_main">>
             /\ ~ Entered(o.calls, "handle_intent")
    /\ \A m \in {S("airfryer")} :
         LET o == ZapiOutcome(Inbound(m))
         IN  /\ After(o).stage = "checkout"
             /\ After(o).offer_expires_at = isoformat(now + OFFER_TTL_MIN)
             /\ Kinds(o.out) = <<"item_offer_safe">>
             /\ ~ Entered(o.calls, "handle_intent")

\* "airfryer" was handled in stage checkout with the offer expired: the offer of
\* the family item went out and offer_expires_at was stamped anew
C3_Witness ==
  /\ inbound.kind = "zapi" /\ inbound.text = S("airfryer")
  /\ inbound.before = <<"checkout", TRUE, TRUE>>
  /\ Kinds(outbox) = <<"item_offer_safe">>
  /\ Ctx.stage = "checkout" /\ Ctx.offer_expires_at = isoformat(now + OFFER_TTL_MIN)

\* C4: with confirmed_owner true, stage checkout and offer_expires_at in the
\* past, a message naming no product gets the renew-offer prompt and does not
\* reach the intent handler; afterwards asked is apply_offer, stage is checkout
\* and offer_expires_at is as before. With the offer not expired the message
\* reaches the intent handler with its detected intent.
C4_ExpiredOfferRenewal ==
  (Ctx # NoCtx /\ Ctx.confirmed_owner /\ StageOf(Ctx) = "checkout") =>
    \A m \in PlainMessages :
      LET o == ZapiOutcome(Inbound(m))
      IN  IF Lapsed(Ctx)
          THEN /\ Kinds(o.out) = <<"renew_offer">>
               /\ ~ Entered(o.calls, "handle_intent")
               /\ After(o).asked = "apply_offer"
               /\ After(o).stage = "checkout"
               /\ After(o).offer_expires_at = Ctx.offer_expires_at
          ELSE \E n \in 1..Len(o.calls) : o.calls[n] = <<"handle_intent", Tx[m].intent>>

\* "oi" was handled in stage checkout with the offer expired
C4_Witness ==
  /\ inbound.kind = "zapi" /\ inbound.text = S("oi")
  /\ inbound.before = <<"checkout", TRUE, TRUE>>
  /\ Kinds(outbox) = <<"renew_offer">>
  /\ Ctx.stage = "checkout" /\ Ctx.asked = "apply_offer" /\ Lapsed(Ctx)

\* C5: in stage verify with no asked tag, "sim" leaves the stored context with
\* confirmed_owner true and stage pick_product and is answered with the
\* product-choice prompt, whether confirmed_owner was false (context of a
\* checkout event) or already true (context of a first message).
C5_YesInVerify ==
  (Ctx # NoCtx /\ StageOf(Ctx) = "verify" /\ Get(Ctx, "asked", NoneSym) = NoneSym) =>
    LET o == ZapiOutcome(Inbound(S("sim")))
    IN  /\ After(o) # NoCtx
        /\ After(o).confirmed_owner
        /\ After(o).stage = "pick_product"
        /\ Kinds(o.out) = <<IF Ctx.confirmed_owner THEN "which_product" ELSE "which_product_owner">>

\* "sim" was handled for the context of a checkout event
C5_Witness ==
  /\ inbound.kind = "zapi" /\ inbound.text = S("sim")
  /\ inbound.before = <<"verify", FALSE, FALSE>>
  /\ Kinds(outbox) = <<"which_product_owner">>
  /\ Ctx.confirmed_owner /\ Ctx.stage = "pick_product"

C8_EventOpensContext ==
  \A req \in CartpandaRequests :
    ( /\ config.cartpanda_secret = "" \/ req.secret = config.cartpanda_secret
      /\ req.phone \in {S("11988887777"), S("5511988887777"), S("(11) 98888-7777")}
      /\ req.product # None /\ py_strip(req.product) # <<>> ) =>
    LET o == CartpandaOutcome(req)
    IN  /\ o.status = 200
        /\ Kinds(o.out) = <<"owner_question">>
        /\ After(o) # NoCtx
        /\ DOMAIN After(o) = {"flow", "name", "product_name", "product_key", "selected_product",
                              "checkout_url", "created_at", "stage", "confirmed_owner", "asked",
                              "last_intent", "offer_expires_at", "reminded"}
        /\ req.event = S("checkout_abandoned") => After(o).flow = "abandoned"
        /\ req.event = S("pix_pending") => After(o).flow = "pix_pending"
        /\ req.event \in {S("order_paid"), None} => After(o).flow = "unknown"
        /\ After(o).stage = "verify"
        /\ ~ After(o).confirmed_owner
        /\ After(o).asked = NoneSym
        /\ After(o).last_intent = NoneSym
        /\ After(o).offer_expires_at = None
        /\ After(o).product_name = py_strip(req.product)
        /\ After(o).created_at = isoformat(now)

\* a checkout event was handled for a phone whose context was in stage checkout
C8_Witness ==
  /\ inbound.kind = "cartpanda" /\ inbound.note = "abandoned"
  /\ inbound.before = <<"checkout", TRUE, FALSE>>
  /\ Kinds(outbox) = <<"owner_question">>
  /\ Ctx.stage = "verify" /\ ~ Ctx.confirmed_owner /\ Ctx.offer_expires_at = None

\* C9: a read made strictly before the time to live of the last store is over
\* returns the stored context, a read made after it is over returns none, and
\* the Redis path and the memory path return the same for the same calls of
\* store, read and clear and the same advances of the clock.
C9_StoreReadTTL ==
  op.name = "read" =>
    /\ op.ret = op.twin
    /\ hist[op.phone].state = "stored" /\ now < hist[op.phone].at + STORE_MINUTES
         => op.ret = hist[op.phone].ctx /\ op.twin = hist[op.phone].ctx
    /\ hist[op.phone].state = "stored" /\ now > hist[op.phone].at + STORE_MINUTES
         => op.ret = NoCtx /\ op.twin = NoCtx

\* a read after the time to live is over, in both deployments
C9_Witness ==
  /\ op.name = "read"
  /\ hist[op.phone].state = "stored" /\ now > hist[op.phone].at + STORE_MINUTES
  /\ op.ret = NoCtx /\ op.twin = NoCtx
  /\ CtxKey(op.phone) \notin DOMAIN _MEM

\* C10: after clear(phone) returns, read(phone) returns none until the next
\* store(phone), whatever calls are made and whenever the Redis server stops
\* and resumes answering in between.
C10_ClearedStaysCleared ==
  (op.name = "read" /\ hist[op.phone].state = "cleared") => op.ret = NoCtx

\* a read during an outage returns the context stored in memory during an
\* earlier outage, although clear_ctx ran in between while Redis answered
C10_Diverges ==
  /\ op.name = "read" /\ hist[op.phone].state = "cleared"
  /\ config.redis /\ ~ redis_up
  /\ op.ret # NoCtx

\* C11: whatever the outages and recoveries of the Redis server, a read made
\* before the time to live is over returns the context of the most recent store
\* of the phone, also when that store ran during an outage and the read runs
\* after the server has recovered, and the reverse.
C11_FailoverTransparent ==
  (op.name = "read" /\ hist[op.phone].state = "stored"
     /\ now < hist[op.phone].at + STORE_MINUTES) => op.ret = hist[op.phone].ctx

\* a read after recovery does not return the context stored during the outage,
\* which is still in the process-local map
C11_Diverges ==
  /\ op.name = "read" /\ hist[op.phone].state = "stored"
  /\ now < hist[op.phone].at + STORE_MINUTES
  /\ config.redis /\ redis_up
  /\ CtxKey(op.phone) \in DOMAIN _MEM
  /\ json_loads(_MEM[CtxKey(op.phone)].data) = hist[op.phone].ctx
  /\ op.ret # hist[op.phone].ctx

\* the number of digits in a raw phone
DigitCount(raw) == Cardinality({i \in 1..Len(raw) : raw[i] \in Digits})

IsDigitString(raw) == \A i \in 1..Len(raw) : raw[i] \in Digits

\* C12: normalize_phone returns None for every input that has fewer than 10
\* digits left once the characters that are not digits are stripped, also when
\* the digits left begin with "55".
C12_ShortPhoneIsNone ==
  (op.name = "normalize_phone" /\ op.phone # None /\ DigitCount(op.phone) < 10) => op.ret = None

\* normalize_phone returned the digits of an input with fewer than 10 digits,
\* because they begin with "55"
C12_Diverges ==
  /\ op.name = "normalize_phone" /\ op.phone # None /\ DigitCount(op.phone) < 10
  /\ op.ret # None
  /\ StartsWith(op.ret, <<"5","5">>)
  /\ Len(op.ret) = DigitCount(op.phone)

\* C13: a result r of normalize_phone that is not None consists of digits only,
\* begins with "55", and normalize_phone(r) = r; a string of 10 or more digits
\* that does not begin with "55" maps to "55" followed by it, and a digit string
\* that begins with "55" is returned as it is.
C13_NormalizeIdempotent ==
  op.name = "normalize_phone" =>
    /\ op.ret # None =>
         /\ IsDigitString(op.ret)
         /\ StartsWith(op.ret, <<"5","5">>)
         /\ op.twin = op.ret
    /\ (op.phone # None /\ IsDigitString(op.phone) /\ StartsWith(op.phone, <<"5","5">>))
         => op.ret = op.phone
    /\ (op.phone # None /\ IsDigitString(op.phone) /\ Len(op.phone) >= 10
          /\ ~ StartsWith(op.phone, <<"5","5">>))
         => op.ret = <<"5","5">> \o op.phone

\* a punctuated phone of 10 or more digits without the country code got the
\* prefix, and normalising the result again returned it unchanged
C13_Witness ==
  /\ op.name = "normalize_phone" /\ op.phone # None
  /\ ~ IsDigitString(op.phone) /\ DigitCount(op.phone) >= 10
  /\ op.phone[1] = "("
  /\ op.ret # None /\ Len(op.ret) = DigitCount(op.phone) + 2
  /\ op.twin = op.ret

\* the intents in the order the claim gives: the table, then the legacy checks
IntentOrder ==
  <<"greeting", "thanks", "stop", "shipping", "payment", "price", "discount", "deadline", "link",
    "product_info", "email_missing", "resend", "trust", "yes", "no", "bought", "quit">>

\* the pattern list kept under an intent's name
PatternsOf(table, name) == table[CHOOSE n \in 1..Len(table) : table[n][1] = name][2]

\* the intents whose pattern list matches the normalized text
MatchingIntents(t) ==
  {IntentOrder[n] : n \in {k \in 1..Len(IntentOrder) :
                             AnySearch(PatternsOf(INTENTS \o LEGACY_INTENTS, IntentOrder[k]), t)}}

Matching == [text \in IntentTexts |-> MatchingIntents(normalize_text(text))]

\* the first intent of IntentOrder that is in the set hits, "unknown" if none is
FirstInOrder(hits) ==
  IF hits = {} THEN "unknown"
  ELSE IntentOrder[CHOOSE n \in 1..Len(IntentOrder) :
                     /\ IntentOrder[n] \in hits
                     /\ \A k \in 1..(n - 1) : IntentOrder[k] \notin hits]

\* C14: detect_intent returns the first intent, in the order greeting, thanks,
\* stop, shipping, payment, price, discount, deadline, link, product_info,
\* email_missing, resend, trust and then the legacy checks yes, no, bought, quit,
\* whose pattern list matches the normalized text, and "unknown" when none does;
\* a text that matches a stop pattern and a price pattern and no earlier entry
\* is a stop.
C14_FirstIntentInOrder ==
  op.name = "detect_intent" =>
    /\ op.ret = FirstInOrder(Matching[op.phone])
    /\ ({"stop", "price"} \subseteq Matching[op.phone]
          /\ Matching[op.phone] \cap {"greeting", "thanks"} = {}) => op.ret = "stop"

\* a text matching a stop pattern and a price pattern was classified as stop
C14_Witness ==
  /\ op.name = "detect_intent"
  /\ {"stop", "price"} \subseteq Matching[op.phone]
  /\ Matching[op.phone] \cap {"greeting", "thanks"} = {}
  /\ op.ret = "stop"

\* C15: offer_expired(ctx) is true exactly when offer_expires_at is present and
\* the current time is strictly later: a stamp in the past gives true, a stamp in
\* the future or equal to now gives false, no stamp gives false.
C15_OfferExpiredStrictly ==
  op.name = "offer_expired" =>
    IF "offer_expires_at" \notin DOMAIN op.phone THEN op.ret = FALSE
    ELSE IF op.phone.offer_expires_at = None THEN op.ret = FALSE
    ELSE /\ op.phone.offer_expires_at[2] < now => op.ret = TRUE
         /\ op.phone.offer_expires_at[2] >= now => op.ret = FALSE

\* offer_expired was asked at the very instant of offer_expires_at, after the
\* clock had moved, and answered false
C15_Witness ==
  /\ op.name = "offer_expired"
  /\ "offer_expires_at" \in DOMAIN op.phone
  /\ op.phone.offer_expires_at = isoformat(now)
  /\ now > 0
  /\ op.ret = FALSE

\* the contexts held by the Redis server and by the process-local map
StoredContexts ==
  {json_loads(redis_db[k].data) : k \in DOMAIN redis_db} \cup {json_loads(_MEM[k].data) : k \in DOMAIN _MEM}

\* a message sent while the last request was handled carries the checkout link
\* of a catalog item
LinkSent == \E n \in 1..Len(outbox) : outbox[n].msg.link # <<>>

\* C16: a request that moves a context to stage checkout leaves offer_expires_at
\* at the time of the request plus OFFER_TTL_MIN, so every stored context in
\* stage checkout has offer_expires_at set; and a reply that carries the
\* checkout link of a catalog item comes with such a move.
C16_CheckoutStampsOffer ==
  /\ \A c \in StoredContexts : c.stage = "checkout" => c.offer_expires_at # None
  /\ (inbound.kind # "idle" /\ inbound.before[1] # "checkout"
        /\ Peek(inbound.phone) # NoCtx /\ Peek(inbound.phone).stage = "checkout")
       => Peek(inbound.phone).offer_expires_at = isoformat(now + OFFER_TTL_MIN)
  /\ (inbound.kind # "idle" /\ LinkSent)
       => /\ Peek(inbound.phone) # NoCtx
          /\ Peek(inbound.phone).stage = "checkout"
          /\ Peek(inbound.phone).offer_expires_at = isoformat(now + OFFER_TTL_MIN)

\* "todos" was handled in the Tabib menu after the clock had moved: the link of
\* the bundle went out and the context is in checkout, stamped now + OFFER_TTL_MIN
C16_Witness ==
  /\ inbound.kind = "zapi" /\ inbound.text = S("todos")
  /\ inbound.before = <<"tabib_menu", TRUE, FALSE>>
  /\ now > 0
  /\ LinkSent
  /\ Ctx.stage = "checkout" /\ Ctx.offer_expires_at = isoformat(now + OFFER_TTL_MIN)

\* C17: with CARTPANDA_WEBHOOK_SECRET configured, a checkout event whose secret
\* header is missing or different is rejected with status 401 before anything
\* else happens: nothing is stored, read or deleted and no message is sent.
C17_BadSecretRejected ==
  \A req \in CartpandaRequests :
    (config.cartpanda_secret # "" /\ req.secret # config.cartpanda_secret) =>
      /\ cartpanda_webhook(req).effects = <<>>
      /\ CartpandaOutcome(req).status = 401
      /\ CartpandaOutcome(req).out = <<>>
      /\ CartpandaOutcome(req).db = redis_db
      /\ CartpandaOutcome(req).mem = _MEM

\* a checkout event with a bad secret was rejected while the phone had a context
\* in stage pick_product, which is still there
C17_Witness ==
  /\ inbound.kind = "cartpanda" /\ inbound.status = 401
  /\ config.cartpanda_secret # ""
  /\ inbound.before = <<"pick_product", TRUE, FALSE>>
  /\ outbox = <<>>
  /\ Ctx # NoCtx /\ Ctx.stage = "pick_product" /\ Ctx.confirmed_owner

\* the inbound message "oi" of the phone with secret header h
InboundWith(h) == ZReq(h, S("application/json"), TRUE, FlatBody(S("11988887777"), S("oi")))

\* C18: with ZAPI_WEBHOOK_SECRET configured, an inbound message whose secret
\* header is missing or different is handled as the same message with the right
\* secret is: the same context is stored and the same reply is sent.
C18_BadSecretStillHandled ==
  config.zapi_secret # "" =>
    \A h \in HeaderSecrets :
      /\ ZapiOutcome(InboundWith(h)).out = ZapiOutcome(InboundWith(config.zapi_secret)).out
      /\ ZapiOutcome(InboundWith(h)).db = ZapiOutcome(InboundWith(config.zapi_secret)).db
      /\ ZapiOutcome(InboundWith(h)).mem = ZapiOutcome(InboundWith(config.zapi_secret)).mem

\* the first message of a phone arrived with a bad secret: nothing was sent and
\* no context was opened
C18_Diverges ==
  /\ inbound.kind = "zapi" /\ inbound.text = S("oi")
  /\ inbound.note = "invalid secret (ignored in test)"
  /\ inbound.before = NotFound
  /\ outbox = <<>>
  /\ Ctx = NoCtx

\* C19: an inbound payload that is a voice note or a call, by its type or by
\* its audio fields, is answered with the cannot-process-audio message and not
\* routed: the context of the phone is not read, created, changed, stored again
\* or deleted, whatever text the payload carries.
C19_AudioNotRouted ==
  \A b \in AudioBodies :
    (config.zapi_secret = "" \/ config.zapi_secret = "s3cret") =>
      /\ zapi_webhook(ZReq("s3cret", S("application/json"), TRUE, b), Store).effects
           = IF extract_phone_and_text(JDict(b))[1] = None THEN <<>>
             ELSE <<ESend(extract_phone_and_text(JDict(b))[1], Reply("no_audio"))>>
      /\ ZapiOutcome(ZReq("s3cret", S("application/json"), TRUE, b)).db = redis_db
      /\ ZapiOutcome(ZReq("s3cret", S("application/json"), TRUE, b)).mem = _MEM
      /\ ZapiOutcome(ZReq("s3cret", S("application/json"), TRUE, b)).calls = <<>>

\* a voice note with the text "sim" arrived for the context of a checkout event:
\* the fixed message went out and the owner is still unconfirmed
C19_Witness ==
  /\ inbound.kind = "zapi" /\ inbound.text = S("sim")
  /\ inbound.before = <<"verify", FALSE, FALSE>>
  /\ Kinds(outbox) = <<"no_audio">>
  /\ calls = <<>>
  /\ Ctx # NoCtx /\ Ctx.stage = "verify" /\ ~ Ctx.confirmed_owner

\* handle_intent was entered with intent i while the last request was handled
HandledIntent(i) == \E n \in 1..Len(calls) : calls[n] = <<"handle_intent", i>>

\* C20: whenever handle_intent is entered with intent stop or quit the context
\* is deleted and the farewell is sent, and whenever it is entered with intent
\* bought the context is deleted and the thank-you is sent; no context of the
\* phone is stored when the request is done.
C20_StopQuitBoughtDelete ==
  /\ (HandledIntent("stop") \/ HandledIntent("quit"))
       => Peek(inbound.phone) = NoCtx /\ Kinds(outbox) = <<"farewell">>
  /\ HandledIntent("bought")
       => Peek(inbound.phone) = NoCtx /\ Kinds(outbox) = <<"bought">>

\* handle_intent was entered with intent bought for "já comprei o antidoto": the
\* offer of a catalog item went out and the context moved to checkout
C20_Diverges ==
  /\ inbound.kind = "zapi" /\ inbound.text = S("já comprei o antidoto")
  /\ HandledIntent("bought")
  /\ Kinds(outbox) = <<"item_offer">>
  /\ Ctx # NoCtx /\ Ctx.stage = "checkout" /\ Ctx.last_intent = "bought"

\* the messages detect_intent classifies as a bare yes or no
YesNoMessages == {m \in Messages : Tx[m].intent \in {"yes", "no"}}

\* the fallback of handle_intent for the flow of ctx
FallbackKind(ctx) == IF ctx.flow = "pix_pending" THEN "pix_pending" ELSE "help_conclude"

\* C21: when handle_intent is entered with intent yes or no, the reply depends
\* on the pending asked tag: with none pending the message is answered with the
\* fallback of the flow (the PIX wording for pix_pending, the finish-your-order
\* wording otherwise); with apply_offer or resend_link pending it is taken as
\* the answer to that question and not answered with the fallback.
C21_YesNoReadsAsked ==
  (Ctx # NoCtx /\ Ctx.confirmed_owner) =>
    \A m \in YesNoMessages :
      Entered(ZapiOutcome(Inbound(m)).calls, "handle_intent") =>
        IF AskedOf(Ctx) = ""
        THEN Kinds(ZapiOutcome(Inbound(m)).out) = <<FallbackKind(Ctx)>>
        ELSE AskedOf(Ctx) \in {"apply_offer", "resend_link"}
               => Kinds(ZapiOutcome(Inbound(m)).out) # <<FallbackKind(Ctx)>>

\* "Sim, sou eu" reached handle_intent as a yes while apply_offer was pending:
\* the fallback went out and the question is still pending
C21_Diverges ==
  /\ inbound.kind = "zapi" /\ inbound.text = S("Sim, sou eu")
  /\ calls = <<<<"route_stage", "verify">>, <<"handle_intent", "yes">>>>
  /\ Kinds(outbox) = <<"help_conclude">>
  /\ Ctx # NoCtx /\ Ctx.asked = "apply_offer"

\* the messages detect_intent classifies as unknown
UnknownMessages == {m \in Messages : Tx[m].intent = "unknown" /\ py_strip(m) # <<>>}

\* handle_intent was entered with intent unknown
HandledUnknown(cs) == \E n \in 1..Len(cs) : cs[n] = <<"handle_intent", "unknown">>

\* the context b exists and keeps the stage, the pending question, the owner
\* flag, the offer stamp and the product fields of the context a
Preserved(a, b) ==
  /\ b # NoCtx
  /\ b.stage = a.stage /\ b.asked = a.asked /\ b.confirmed_owner = a.confirmed_owner
  /\ b.offer_expires_at = a.offer_expires_at
  /\ b.product_name = a.product_name /\ b.product_key = a.product_key
  /\ b.selected_product = a.selected_product

\* the turn o answered with the ask-to-rephrase prompt and kept the context ctx
Rephrase(ctx, o) == Kinds(o.out) = <<"not_understood">> /\ Preserved(ctx, PeekAfter(o, ThePhone))

\* C22: when handle_intent is entered with intent unknown, the reply is the
\* ask-to-rephrase prompt and the context is kept: it is not deleted and its
\* stage, asked, confirmed_owner, offer_expires_at and product fields are the
\* same after the turn as before.
C22_UnknownKeepsContext ==
  (Ctx # NoCtx /\ Ctx.confirmed_owner) =>
    \A m \in UnknownMessages :
      HandledUnknown(ZapiOutcome(Inbound(m)).calls) => Rephrase(Ctx, ZapiOutcome(Inbound(m)))

\* "o que" reached handle_intent as unknown in stage verify and was answered
\* with an offer; the context moved to checkout with the offer stamped
C22_Diverges ==
  /\ inbound.kind = "zapi" /\ inbound.text = S("o que")
  /\ calls = <<<<"route_stage", "verify">>, <<"handle_intent", "unknown">>>>
  /\ Kinds(outbox) = <<"item_offer">>
  /\ Ctx # NoCtx /\ Ctx.stage = "checkout" /\ Ctx.offer_expires_at # None

\* the ways a send fails: the gateway is not configured, the POST is answered
\* with a status of 400 or more, the POST raises
FailedSends == {<<FALSE, PostOK>>} \cup {<<TRUE, post>> : post \in Posts \ {PostOK}}

\* the turn a ended as the turn b did: no exception left zapi_send_text, the
\* handler answered the same, and the same contexts are stored
SameTurn(a, b) ==
  /\ \A n \in 1..Len(a.sends) : ~ a.sends[n].raised /\ ~ a.sends[n].ok
  /\ Len(a.sends) = Len(b.sends)
  /\ a.status = b.status /\ a.db = b.db /\ a.mem = b.mem

\* C23: a send that fails (gateway not configured, status 400 or more, or an
\* exception of the POST) is returned as a value with ok False and never
\* raised, and the turn goes on as if the message had been delivered: for
\* every stored context and every message, the contexts stored when the
\* request is done are the same whether the sends succeed or fail.
C23_SendFailureIgnored ==
  \A m \in Messages : \A f \in FailedSends :
    SameTurn(OutcomeVia(zapi_webhook(Inbound(m), Store), f[1], f[2]), ZapiOutcome(Inbound(m)))

\* the POST raised while "tem desconto" was answered; the turn still stored the
\* pending question
C23_Witness ==
  /\ inbound.kind = "zapi" /\ inbound.text = S("tem desconto")
  /\ Len(inbound.sends) = 1 /\ inbound.sends[1].error = "exception"
  /\ inbound.status = 200
  /\ Ctx # NoCtx /\ Ctx.asked = "apply_offer"

\* ------------------------------------------------------------------------
\* Two inbound messages of one phone handled at the same time
\* ------------------------------------------------------------------------
\* the event loop runs a handler until it awaits the POST of zapi_send_text, and
\* may then start or resume another handler; read_ctx and store_ctx do not await
MaxTurns == 4

RaceMessages == {S("oi"), S("xyz"), S("dores"), S("tem desconto"), S("pare"), S("já comprei")}

\* the effects up to the first send and with it, and those after it
RECURSIVE UntilSend(_)
UntilSend(effects) ==
  IF effects = <<>> THEN <<>>
  ELSE IF Head(effects)[1] = "send" THEN <<Head(effects)>>
  ELSE <<Head(effects)>> \o UntilSend(Tail(effects))

AfterSend(effects) == SubSeq(effects, Len(UntilSend(effects)) + 1, Len(effects))

\* a variant of Written that writes the fields the turn changed into the context
\* stored by then; C24_LastWriteWins tells it from the code
Written_merged(local, read, stored) ==
  IF stored = NoCtx \/ read = NoCtx THEN local
  ELSE [k \in DOMAIN local |->
          IF k \in DOMAIN read /\ k \in DOMAIN stored /\ local[k] = read[k]
          THEN stored[k] ELSE local[k]]

\* store_ctx(phone, ctx) in a handler: ctx is the dict the handler read (read)
\* with its own changes (local); it is stored whole, whatever is stored by then
Written(local, read, stored) == local

\* the store after the effects of a handler that read the context read
RECURSIVE Run(_, _, _)
Run(effects, st, read) ==
  IF effects = <<>> THEN st
  ELSE LET e == Head(effects)
       IN  Run(Tail(effects),
               CASE e[1] = "store" -> store_ctx(st, e[2], Written(e[3], read, read_ctx(st, e[2]).ret), e[4])
                 [] e[1] = "read"  -> read_ctx(st, e[2])
                 [] e[1] = "clear" -> clear_ctx(st, e[2])
                 [] OTHER -> st,
               read)

Writes(effects) == \E n \in 1..Len(effects) : effects[n][1] \in {"store", "clear"}

SendsOf(effects) ==
  [n \in 1..Len(SelectSeq(effects, LAMBDA e : e[1] = "send")) |->
     [phone |-> SelectSeq(effects, LAMBDA e : e[1] = "send")[n][2],
      msg |-> SelectSeq(effects, LAMBDA e : e[1] = "send")[n][3]]]

\* handler h did the effects seg and has rest left
Ran(h, task, seg, rest) ==
  /\ redis_db' = Run(seg, Store, task.read).db
  /\ _MEM' = Run(seg, Store, task.read).mem
  /\ outbox' = SendsOf(seg)
  /\ tasks' = [of |-> [tasks.of EXCEPT ![h] = [task EXCEPT !.rest = rest,
                         !.state = IF rest = <<>> THEN "done" ELSE "waiting"]],
               last |-> IF Writes(seg) THEN h ELSE tasks.last]
  /\ UNCHANGED <<now, config, redis_up, calls, op, hist>>

Began(h, m, effects) ==
  /\ Ran(h, [state |-> "free", text |-> m, read |-> Ctx, rest |-> effects,
             alone |-> After(ZapiOutcome(Inbound(m)))],
         UntilSend(effects), AfterSend(effects))
  /\ handled' = handled + 1
  /\ inbound' = [kind |-> "zapi", phone |-> ThePhone, text |-> m, before |-> Found(Ctx),
                 asked |-> AskedOf(Ctx), status |-> 200, note |-> "", sends |-> <<>>]

\* POST /webhook/zapi: the handler runs to its first send
Start(h, m) ==
  /\ tasks.of[h].state # "waiting"
  /\ handled < MaxTurns
  /\ Began(h, m, zapi_webhook(Inbound(m), Store).effects)

\* the POST of the send is answered: the handler runs to its next send or to its end
Resume(h) ==
  /\ tasks.of[h].state = "waiting"
  /\ Ran(h, tasks.of[h], UntilSend(tasks.of[h].rest), AfterSend(tasks.of[h].rest))
  /\ UNCHANGED <<handled, inbound>>

StartTurn == \E h \in Handlers, m \in RaceMessages : Start(h, m)

ResumeTurn == \E h \in Handlers : Resume(h)

NextRace == StartTurn \/ ResumeTurn

SpecRace == Init /\ [][NextRace]_vars

\* C24: the read-modify-write of a context is not atomic across handlers: two
\* handlers of the same phone can read the same context, and the one that
\* stores last replaces what the other stored. Whenever the handler that wrote
\* last is done, the stored context is what its turn leaves when nothing runs
\* beside it, whatever the other handler stored in between.
C24_LastWriteWins ==
  \A h \in Handlers :
    (tasks.last = h /\ tasks.of[h].state = "done") => Ctx = tasks.of[h].alone

\* both handlers read the same context; handler 2 described Tabib Volume 1 and
\* stored stage tabib_menu, handler 1 then stored the context it had read: the
\* stage is verify again and nothing is asked
C24_Witness ==
  /\ tasks.of[1].state = "done" /\ tasks.of[2].state = "done"
  /\ tasks.of[1].read # NoCtx /\ tasks.of[1].read = tasks.of[2].read
  /\ tasks.of[2].text = S("dores") /\ tasks.of[2].alone.stage = "tabib_menu"
  /\ tasks.last = 1
  /\ Ctx # NoCtx /\ Ctx.stage = "verify" /\ Ctx.asked = NoneSym

\* C25: for every item X of the catalog and every declared alias of X,
\* find_by_text of a text that contains the alias returns X as the first
\* element of its result (op.twin is the sku of X, op.ret the skus found).
C25_AliasFindsItem ==
  op.name = "find_by_text" => (op.ret # <<>> /\ op.ret[1] = op.twin)

\* the alias "tabib 1" of Tabib Volume 1 finds the Tabib bundle first
C25_Diverges ==
  /\ op.name = "find_by_text" /\ op.phone = <<"t","a","b","i","b"," ","1">>
  /\ op.twin = <<"T","A","B","I","B","_","V","1">>
  /\ op.ret = <<<<"T","A","B","I","B","_","2","4","_","2","5","_","B","U","N","D","L","E">>, <<"T","A","B","I","B","_","V","1">>>>

\* the literal affirmatives of the ownership question
Affirmatives == {S("1"), S("sim"), S("sou eu"), S("isso mesmo"), S("eu")}

\* the context after the message m has the owner confirmed
ConfirmedBy(m) ==
  After(ZapiOutcome(Inbound(m))) # NoCtx /\ After(ZapiOutcome(Inbound(m))).confirmed_owner

\* C26: the ownership confirmation is matched exactly: confirmed_owner changes
\* from false to true only when the trimmed, lower-cased message equals one of
\* the literal affirmatives "1", "sim", "sou eu", "isso mesmo", "eu", never
\* because an affirmative word occurs inside a longer message.
C26_OwnerConfirmedExactly ==
  (Ctx # NoCtx /\ ~ Ctx.confirmed_owner) =>
    \A m \in Messages : ConfirmedBy(m) => py_lower(py_strip(m)) \in Affirmatives

\* "isso não é meu" was sent to the ownership question of a checkout event and
\* the owner is confirmed, the stage is pick_product
C26_Diverges ==
  /\ inbound.kind = "zapi" /\ inbound.text = S("isso não é meu")
  /\ inbound.before = <<"verify", FALSE, FALSE>>
  /\ Kinds(outbox) = <<"which_product_owner">>
  /\ Ctx # NoCtx /\ Ctx.confirmed_owner /\ Ctx.stage = "pick_product"

\* the context is in the Tabib menu, the main question pending
InTabibMain == Ctx # NoCtx /\ Ctx.confirmed_owner /\ Ctx.stage = "tabib_menu" /\ Ctx.asked = "tabib_main"

\* the context c is in checkout with the offer stamped now and nothing asked
Offered(c) ==
  c # NoCtx /\ c.stage = "checkout" /\ c.asked = NoneSym
    /\ c.offer_expires_at = isoformat(now + OFFER_TTL_MIN)

\* C27: in stage tabib_menu with asked=tabib_main, "1", "todos", "bundle" or
\* "pacote" chooses the bundle when the catalog has one (stage checkout, the
\* end of the offer stamped, asked cleared); "2", "unitario" or "unitarios"
\* sets asked=tabib_pick_unit and leaves the stage tabib_menu; "3" or "voltar"
\* sets stage=pick_product and clears asked.
C27_TabibMainOptions ==
  InTabibMain =>
    /\ \A m \in {S("1"), S("todos"), S("bundle"), S("pacote")} :
         TabibBundleItem # NoItem => Offered(After(ZapiOutcome(Inbound(m))))
    /\ \A m \in {S("2"), S("unitario"), S("unitarios")} :
         /\ After(ZapiOutcome(Inbound(m))) # NoCtx
         /\ After(ZapiOutcome(Inbound(m))).stage = "tabib_menu"
         /\ After(ZapiOutcome(Inbound(m))).asked = "tabib_pick_unit"
    /\ \A m \in {S("3"), S("voltar")} :
         /\ After(ZapiOutcome(Inbound(m))) # NoCtx
         /\ After(ZapiOutcome(Inbound(m))).stage = "pick_product"
         /\ After(ZapiOutcome(Inbound(m))).asked = NoneSym

\* "3" was answered in the Tabib menu: the stage is pick_product, nothing asked
C27_Witness ==
  /\ inbound.kind = "zapi" /\ inbound.text = S("3")
  /\ inbound.before = <<"tabib_menu", TRUE, FALSE>> /\ inbound.asked = "tabib_main"
  /\ calls = <<<<"route_stage", "tabib_menu">>>>
  /\ Kinds(outbox) = <<"which_product_now">>
  /\ Ctx # NoCtx /\ Ctx.stage = "pick_product" /\ Ctx.asked = NoneSym

\* the sub-states of the Tabib menu
TabibAsked == {"tabib_main", "tabib_after_desc", "tabib_pick_unit"}

\* the text with the facts tx is one of the options the sub-state asked lists
Listed(asked, tx) ==
  CASE asked = "tabib_main"       -> tx.main_bundle \/ tx.main_units \/ tx.main_back
    [] asked = "tabib_after_desc" -> tx.intent = "link" \/ tx.desc_bundle \/ tx.desc_units
    [] asked = "tabib_pick_unit"  -> tx.unit_digit \/ (tx.items # <<>> /\ tx.items[1].family = FAM_TABIB)

\* the turn o asked again and left the stage, the question and the offer of ctx
Clarified(ctx, o) ==
  /\ Len(o.out) = 1
  /\ o.out[1].msg.kind \in {"tabib_clarify", "after_desc_clarify", "pick_unit_clarify"}
  /\ PeekAfter(o, ThePhone) # NoCtx
  /\ PeekAfter(o, ThePhone).stage = ctx.stage
  /\ PeekAfter(o, ThePhone).asked = ctx.asked
  /\ PeekAfter(o, ThePhone).offer_expires_at = ctx.offer_expires_at

\* C28: in stage tabib_menu with asked tabib_main, tabib_after_desc or
\* tabib_pick_unit, every message that is none of the options of that sub-state
\* and names no product is answered with a clarifying prompt and leaves stage,
\* asked and offer_expires_at as they were; a bare digit 1-5 is resolved by
\* find_tabib_choice_by_number only when asked is none of the three.
C28_UnlistedInputClarified ==
  (Ctx # NoCtx /\ Ctx.confirmed_owner /\ Ctx.stage = "tabib_menu" /\ Ctx.asked \in TabibAsked) =>
    \A m \in PlainMessages :
      ~ Listed(Ctx.asked, Tx[m]) => Clarified(Ctx, ZapiOutcome(Inbound(m)))

\* "4", none of the options 1, 2, 3 of the main question, was answered with the
\* offer of Tabib Volume 4 and the context is in checkout
C28_Diverges ==
  /\ inbound.kind = "zapi" /\ inbound.text = S("4")
  /\ inbound.before = <<"tabib_menu", TRUE, FALSE>> /\ inbound.asked = "tabib_main"
  /\ Kinds(outbox) = <<"item_offer">> /\ outbox[1].msg.sku = SKU_TABIB_V4
  /\ Ctx # NoCtx /\ Ctx.stage = "checkout" /\ Ctx.offer_expires_at # None

\* the text with the facts tx answers the list of the volumes: a digit 1-4, or
\* a text whose first catalog match is of the Tabib family
PicksUnit(tx) == tx.unit_digit \/ (tx.items # <<>> /\ tx.items[1].family = FAM_TABIB)

\* the item such a text picks
UnitPicked(tx) == IF tx.unit_digit THEN tx.unit_item ELSE tx.items[1]

\* the turn o offered the item it and left the context in checkout
Picked(it, o) ==
  /\ Len(o.out) = 1 /\ o.out[1].msg.sku = it.sku
  /\ Offered(PeekAfter(o, ThePhone))

\* C29: in stage tabib_menu with asked=tabib_pick_unit, a message that is a
\* digit 1-4, or a text whose first catalog match is of the Tabib family (as
\* the "v2" and "volume 2" the list itself suggests), selects that item: the
\* stage becomes checkout, the end of the offer is stamped, asked is cleared.
C29_PickUnitSelects ==
  (Ctx # NoCtx /\ Ctx.confirmed_owner /\ Ctx.stage = "tabib_menu" /\ Ctx.asked = "tabib_pick_unit") =>
    \A m \in Messages :
      PicksUnit(Tx[m]) => Picked(UnitPicked(Tx[m]), ZapiOutcome(Inbound(m)))

\* "v2" was sent to the list of the volumes: the main menu was sent again, the
\* context waits for its answer and no offer is stamped
C29_Diverges ==
  /\ inbound.kind = "zapi" /\ inbound.text = S("v2")
  /\ inbound.before = <<"tabib_menu", TRUE, FALSE>> /\ inbound.asked = "tabib_pick_unit"
  /\ Kinds(outbox) = <<"tabib_main">>
  /\ Ctx # NoCtx /\ Ctx.stage = "tabib_menu" /\ Ctx.asked = "tabib_main"
  /\ Ctx.offer_expires_at = None

\* the turn o offered the item it and left the context in checkout, the end of
\* the offer stamped
OfferedItem(it, o) ==
  /\ Len(o.out) = 1 /\ o.out[1].msg.sku = it.sku /\ o.out[1].msg.link # <<>>
  /\ PeekAfter(o, ThePhone) # NoCtx
  /\ PeekAfter(o, ThePhone).stage = "checkout"
  /\ PeekAfter(o, ThePhone).offer_expires_at = isoformat(now + OFFER_TTL_MIN)

\* the turn o asked for keywords and stored ctx with the intent of the message
AskedKeywords(ctx, intent, o) ==
  /\ Kinds(o.out) = <<"product_unknown">>
  /\ PeekAfter(o, ThePhone) = [ctx EXCEPT !.last_intent = intent]

\* what stage pick_product does with a message of facts tx, by the three rules
PickProductRule(ctx, tx, o) ==
  IF tx.has_tabib
  THEN PeekAfter(o, ThePhone) # NoCtx /\ PeekAfter(o, ThePhone).stage = "tabib_menu"
  ELSE IF tx.items # <<>> THEN OfferedItem(tx.items[1], o)
  ELSE AskedKeywords(ctx, tx.intent, o)

\* C30: in stage pick_product a message that mentions "tabib" ends with
\* stage=tabib_menu; any other message with a hit of find_by_text is answered
\* with the offer of the first hit and ends with stage=checkout and the end of
\* the offer stamped; a message with no hit is answered with the prompt that
\* asks for keywords and leaves stage=pick_product and every field of the
\* context but last_intent as it was.
C30_PickProductRules ==
  (Ctx # NoCtx /\ Ctx.confirmed_owner /\ Ctx.stage = "pick_product") =>
    \A m \in {x \in Messages : py_strip(x) # <<>>} :
      PickProductRule(Ctx, Tx[m], ZapiOutcome(Inbound(m)))

\* "v2", which finds Tabib Volume 2 in the catalog, was sent in stage
\* pick_product: the Tabib menu was sent, no offer was made
C30_Diverges ==
  /\ inbound.kind = "zapi" /\ inbound.text = S("v2")
  /\ inbound.before = <<"pick_product", TRUE, FALSE>>
  /\ Kinds(outbox) = <<"tabib_main">>
  /\ Ctx # NoCtx /\ Ctx.stage = "tabib_menu" /\ Ctx.offer_expires_at = None

\* the window the spec gives a write of a context that exists already: the
\* default of ttl_seconds
RefreshMinutes == 90

\* the messages with a text to route
TextMessages == {m \in Messages : py_strip(m) # <<>>}

\* the time at which the entry of the phone expires in the state of outcome o
ExpiryAfter(o) ==
  IF config.redis /\ redis_up THEN o.db[CtxKey(ThePhone)].exp ELSE o.mem[CtxKey(ThePhone)].exp

\* C31: the handler that creates a context stores it to expire 180 minutes
\* later; every later write of the context (an inbound message of a confirmed
\* owner that leaves a context) stores it to expire RefreshMinutes after the
\* time of that write.
C31_WriteRefreshesTTL ==
  \A m \in TextMessages :
    /\ Ctx = NoCtx
         => /\ After(ZapiOutcome(Inbound(m))) # NoCtx
            /\ ExpiryAfter(ZapiOutcome(Inbound(m))) = now + STORE_MINUTES
    /\ (Ctx # NoCtx /\ Ctx.confirmed_owner /\ After(ZapiOutcome(Inbound(m))) # NoCtx)
         => ExpiryAfter(ZapiOutcome(Inbound(m))) = now + RefreshMinutes

\* a message of a confirmed owner was handled after the clock had moved, and the
\* context it left expires STORE_MINUTES after that write
C31_Diverges ==
  /\ inbound.kind = "zapi" /\ inbound.phone = ThePhone
  /\ inbound.before[1] # "none" /\ inbound.before[2]
  /\ now > 0
  /\ Ctx # NoCtx
  /\ (IF config.redis /\ redis_up THEN redis_db[CtxKey(ThePhone)].exp
      ELSE _MEM[CtxKey(ThePhone)].exp) = now + STORE_MINUTES

\* C32: an inbound message of a phone for which read_ctx returns nothing (no
\* context was stored, or the stored one has expired) is not routed, whatever
\* its text: the greeting is the only reply, no function of the routing is
\* entered, and the context stored has flow unknown, stage verify,
\* confirmed_owner true, asked unset and offer_expires_at unset.
C32_NoContextOnlyGreets ==
  Ctx = NoCtx =>
    \A m \in TextMessages :
      /\ Kinds(ZapiOutcome(Inbound(m)).out) = <<"intro">>
      /\ ZapiOutcome(Inbound(m)).calls = <<>>
      /\ After(ZapiOutcome(Inbound(m))) # NoCtx
      /\ After(ZapiOutcome(Inbound(m))).flow = "unknown"
      /\ After(ZapiOutcome(Inbound(m))).stage = "verify"
      /\ After(ZapiOutcome(Inbound(m))).confirmed_owner
      /\ After(ZapiOutcome(Inbound(m))).asked = NoneSym
      /\ After(ZapiOutcome(Inbound(m))).offer_expires_at = None

\* "pare" arrived later than any context stored at the start could have lived,
\* read_ctx returned nothing for the phone, and the message was answered with
\* the greeting and a context created at that time
C32_Witness ==
  /\ inbound.kind = "zapi" /\ inbound.text = S("pare") /\ inbound.phone = ThePhone
  /\ inbound.before = NotFound
  /\ now > STORE_MINUTES
  /\ Kinds(outbox) = <<"intro">> /\ calls = <<>>
  /\ Ctx # NoCtx /\ Ctx.stage = "verify" /\ Ctx.confirmed_owner
  /\ Ctx.created_at = isoformat(now)

\* C33: every stored context whose stage is not verify (pick_product,
\* tabib_menu or checkout) has confirmed_owner true; and an inbound message that
\* finds a context with confirmed_owner false enters neither route_stage nor
\* handle_intent.
C33_StageImpliesConfirmed ==
  /\ \A c \in StoredContexts : c.stage # "verify" => c.confirmed_owner
  /\ (inbound.kind = "zapi" /\ inbound.before[1] # "none" /\ ~ inbound.before[2])
       => calls = <<>>

\* "tabib" arrived for a context a checkout event had opened: the owner was not
\* confirmed, nothing of the routing ran and the context stays in verify,
\* unconfirmed
C33_Witness ==
  /\ inbound.kind = "zapi" /\ inbound.text = S("tabib") /\ inbound.phone = ThePhone
  /\ inbound.before = <<"verify", FALSE, FALSE>>
  /\ calls = <<>>
  /\ Kinds(outbox) = <<"can_i_help">>
  /\ Ctx # NoCtx /\ Ctx.stage = "verify" /\ ~ Ctx.confirmed_owner

\* the sub-state tags of the Tabib menu
TabibTags == {"tabib_main", "tabib_after_desc", "tabib_pick_unit"}

\* C34: in every stored context, asked is one of the Tabib sub-state tags
\* exactly when stage is tabib_menu.
C34_TabibTagIffMenu ==
  \A c \in StoredContexts : (c.asked \in TabibTags) <=> (c.stage = "tabib_menu")

\* "airfryer" was handled in the Tabib menu: the context went to checkout with
\* the tag of the menu still in asked
C34_Diverges ==
  /\ inbound.kind = "zapi" /\ inbound.text = S("airfryer") /\ inbound.phone = ThePhone
  /\ inbound.before = <<"tabib_menu", TRUE, FALSE>>
  /\ Ctx # NoCtx /\ Ctx.stage = "checkout" /\ Ctx.asked = "tabib_main"

\* C35: for a context in stage checkout whose offer has expired there is a
\* message naming no product ("sim", the affirmative reply to the renew prompt)
\* after which offer_expires_at lies in the future.
C35_YesRenewsOffer ==
  (Ctx # NoCtx /\ StageOf(Ctx) = "checkout" /\ Lapsed(Ctx)) =>
    \E m \in PlainMessages :
      /\ After(ZapiOutcome(Inbound(m))) # NoCtx
      /\ After(ZapiOutcome(Inbound(m))).offer_expires_at # None
      /\ ~ Lapsed(After(ZapiOutcome(Inbound(m))))

\* "sim" answered the renew prompt of an expired offer: it got the prompt again,
\* and the offer of the stored context is still the expired one
C35_Diverges ==
  /\ inbound.kind = "zapi" /\ inbound.text = S("sim") /\ inbound.phone = ThePhone
  /\ inbound.before = <<"checkout", TRUE, TRUE>>
  /\ inbound.asked = "apply_offer"
  /\ Kinds(outbox) = <<"renew_offer">>
  /\ Ctx # NoCtx /\ Ctx.stage = "checkout" /\ Ctx.asked = "apply_offer" /\ Lapsed(Ctx)

\* the messages whose normalized text matches a pattern of the stop intent
StopMessages ==
  {m \in Messages : AnySearch(PatternsOf(INTENTS, "stop"), normalize_text(py_strip(m)))}

\* C36: a message whose normalized text matches a stop pattern and that reaches
\* handle_intent from stage verify with the owner confirmed, or from stage
\* checkout with the offer not expired, deletes the context, also when the text
\* has a greeting or thanks word or a token of the catalog alias index.
C36_StopAlwaysDeletes ==
  ( /\ inbound.kind = "zapi" /\ inbound.text \in StopMessages
    /\ inbound.before \in {<<"verify", TRUE, FALSE>>, <<"checkout", TRUE, FALSE>>}
    /\ Entered(calls, "handle_intent") )
    => Peek(inbound.phone) = NoCtx

\* "oi, pare" reached handle_intent as a greeting in stage verify with the owner
\* confirmed: it was answered with the greeting reply and the context is kept
C36_Diverges ==
  /\ inbound.kind = "zapi" /\ inbound.text = S("oi, pare") /\ inbound.phone = ThePhone
  /\ inbound.before = <<"verify", TRUE, FALSE>>
  /\ HandledIntent("greeting")
  /\ Ctx # NoCtx /\ Ctx.stage = "verify"

\* C37: a handler that read a context which another handler has deleted since
\* (the handler of a stop, quit or bought message called clear_ctx) does not
\* store it again: when it runs on from its send, read_ctx still returns nothing
\* for the phone.
C37_OptOutFinal ==
  [][\A g \in Handlers :
       ( /\ tasks.of[g].state = "waiting" /\ tasks.of[g].read # NoCtx
         /\ Ctx = NoCtx
         /\ tasks'.of[g] # tasks.of[g] )
       => Ctx' = NoCtx]_vars

\* handler 1 read the context and was suspended in its send, handler 2 handled
\* "pare" on the same context and deleted it, then handler 1 stored the context
\* it had read: both are done and the phone has a context again
C37_Diverges ==
  /\ tasks.of[1].state = "done" /\ tasks.of[2].state = "done"
  /\ tasks.of[2].text = S("pare") /\ tasks.of[2].alone = NoCtx
  /\ tasks.of[1].read # NoCtx /\ tasks.of[1].read = tasks.of[2].read
  /\ tasks.of[1].text = S("xyz")
  /\ tasks.last = 1
  /\ Ctx # NoCtx

====
